---- MODULE Spec2Model ----
(***************************************************************************)
(* Career Compass: the job-listing acquisition and extraction pipeline of  *)
(* job_scraper.py (search_jobs, get_job_details and the field extractors). *)
(*                                                                         *)
(* Text is modelled as a sequence of tokens.  Every token is a TLA+ string *)
(* that stands for exactly those characters; the text is the              *)
(* concatenation of its tokens.  The regular expressions of the source are *)
(* translated to scans over tokens; the translation is exact for texts     *)
(* built from the tokens of Tokens (no token contains a newline, a bullet  *)
(* mark, or a '.' or ';', and whitespace only occurs as the tokens SP/NL). *)
(***************************************************************************)
EXTENDS Naturals, Sequences, FiniteSets, TLC

VARIABLES
    pc,             \* position of get_job_details
    url,            \* its argument
    status,         \* response.status_code of the last GET to the listing URL (0: none)
    text_content,   \* h2t.handle(response.text)
    description,    \* local of get_job_details
    requirements,   \* local of get_job_details
    search_query,   \* local of get_job_details: query of the secondary search
    alt_n,          \* len(alt_results)
    alt_i,          \* number of alt_results the loop has taken so far
    alt_status,     \* alt_response.status_code of the last alternate GET (0: it raised)
    result,         \* what the call gave its caller: NoResult, Raised or a JobRecord
    gets,           \* number of GETs issued to the listing URL: the last used user_agents[gets]
    searches,       \* history: number of calls to the search provider
    sj_pc,          \* position of search_jobs
    sj_args,        \* its arguments: [query, location, num_results]
    sj_query,       \* its local search_query
    sj_results,     \* its local results, as the provider returned them
    job_listings,   \* its local job_listings
    sj_out,         \* what search_jobs gave its caller
    sj_calls,       \* history: the calls to the search provider, [query, raised]
    fit_pc,         \* position of analyze_job_fit
    fit_job,        \* its argument job_details: "record", or "none" for None
    fit_content,    \* response.content
    fit_out,        \* what analyze_job_fit gave its caller
    sc_pc,          \* position of suggest_courses_for_skills
    sc_skills,      \* its argument skills_to_develop
    sc_content,     \* response.content
    sc_out,         \* what suggest_courses_for_skills gave its caller
    job_search_results,  \* st.session_state.job_search_results
    selected_job,        \* st.session_state.selected_job: None, or the entry of
                         \* job_search_results it aliases, by its position
    job_details,         \* st.session_state.job_details
    job_fit_analysis,    \* st.session_state.job_fit_analysis
    job_skills_courses,  \* st.session_state.job_skills_courses
    resume_text,         \* st.session_state.resume_text
    ejd_pc,              \* position of extract_job_description
    ejd_soup,            \* its argument soup, as the outcome of each selector
    ejd_text,            \* its argument text_content
    description_section, \* its local description_section, returned at the end
    eal_pc,               \* position of extract_application_link
    eal_soup,             \* its argument soup, as the outcome of each apply selector
    eal_url,              \* its argument default_url
    eal_i,                \* number of apply_selectors the loop has taken
    eal_out,             \* what extract_application_link returned
    sal_pc,               \* position of extract_salary
    sal_text,             \* its argument text
    sal_out              \* what extract_salary returned

vars == <<pc, url, status, text_content, description, requirements,
          search_query, alt_n, alt_i, alt_status, result, gets, searches,
          sj_pc, sj_args, sj_query, sj_results, job_listings, sj_out, sj_calls,
          fit_pc, fit_job, fit_content, fit_out, sc_pc, sc_skills, sc_content, sc_out,
          job_search_results, selected_job, job_details, job_fit_analysis,
          job_skills_courses, resume_text,
          ejd_pc, ejd_soup, ejd_text, description_section,
          eal_pc, eal_soup, eal_url, eal_i, eal_out,
          sal_pc, sal_text, sal_out>>

fetchVars == <<pc, url, status, text_content, description, requirements,
               search_query, alt_n, alt_i, alt_status, result, gets, searches>>

searchVars == <<sj_pc, sj_args, sj_query, sj_results, job_listings, sj_out, sj_calls>>

fitVars == <<fit_pc, fit_job, fit_content, fit_out>>

coursesVars == <<sc_pc, sc_skills, sc_content, sc_out>>

descVars == <<ejd_pc, ejd_soup, ejd_text, description_section>>

linkVars == <<eal_pc, eal_soup, eal_url, eal_i, eal_out>>

salaryVars == <<sal_pc, sal_text, sal_out>>

appVars == <<job_search_results, selected_job, job_details, job_fit_analysis,
             job_skills_courses, resume_text>>

(***************************************************************************)
(* Tokens                                                                  *)
(***************************************************************************)
NL == "\n"
SP == " "
DOT == "."
BUL == "*"
KwRequired == "required"
KwSkill == "skill in Python"
KwHealth == "health insurance"
KwDental == "dental insurance"
KwVision == "vision insurance"
SLASH == "/"
DASH == "-"
Kw401k == "401k"
KwRetirement == "retirement"
KwPto == "paid time off"
KwVacation == "vacation"
KwRemoteWork == "remote work"
KwBonus == "bonus"
HdrReq == "Requirements:"
HdrBen == "Benefits:"
HdrJobType == "Job Type:"
HdrDesc == "Job Description:"
TermApply == "Apply"
JtRemote == "Remote"
JtHybrid == "hybrid"
DollarAmt == "$80,000"
Word == "x"

BenefitTokens == <<KwHealth, KwDental, KwVision, Kw401k, KwRetirement, KwPto,
                   KwVacation, KwRemoteWork, KwBonus>>

Tokens == {NL, SP, DOT, BUL, KwRequired, KwSkill, HdrReq, HdrBen, HdrJobType, HdrDesc,
           TermApply, JtRemote, JtHybrid, DollarAmt, Word}
          \cup {BenefitTokens[i] : i \in DOMAIN BenefitTokens}

Min(S) == CHOOSE m \in S : \A n \in S : m <= n
Max(S) == CHOOSE m \in S : \A n \in S : m >= n

\* len(s) of the string a token sequence stands for
RECURSIVE StrLen(_)
StrLen(s) ==
    IF s = <<>> THEN 0
    ELSE IF Len(s) = 1 THEN Len(s[1])
    ELSE LET h == Len(s) \div 2
         IN StrLen(SubSeq(s, 1, h)) + StrLen(SubSeq(s, h + 1, Len(s)))

IsWs(t) == t \in {SP, NL}

\* a separator token without the blank at its left, at its right
LTrim(t) ==
    CASE t = " in " -> "in " [] t = " in" -> "in"
      [] t = " - " -> "- " [] t = " -" -> "-"
      [] OTHER -> t
RTrim(t) ==
    CASE t = " in " -> " in" [] t = "in " -> "in"
      [] t = " - " -> " -" [] t = "- " -> "-"
      [] OTHER -> t

\* str.strip()
RECURSIVE LStrip(_)
LStrip(s) ==
    IF s = <<>> THEN s
    ELSE IF IsWs(Head(s)) THEN LStrip(Tail(s))
    ELSE <<LTrim(Head(s))>> \o Tail(s)

RECURSIVE RStrip(_)
RStrip(s) ==
    IF s = <<>> THEN s
    ELSE IF IsWs(s[Len(s)]) THEN RStrip(SubSeq(s, 1, Len(s) - 1))
    ELSE SubSeq(s, 1, Len(s) - 1) \o <<RTrim(s[Len(s)])>>

Strip(s) == RStrip(LStrip(s))

\* s[:n]: the longest prefix of whole tokens with at most n characters
Truncate(s, n) ==
    IF StrLen(s) <= n THEN s
    ELSE SubSeq(s, 1, Max({k \in 0..Len(s) : StrLen(SubSeq(s, 1, k)) <= n}))

\* list(dict.fromkeys(xs)): drop later duplicates, keep first-seen order
RECURSIVE Dedup(_)
Dedup(xs) ==
    IF xs = <<>> THEN <<>>
    ELSE LET init == Dedup(SubSeq(xs, 1, Len(xs) - 1))
             last == xs[Len(xs)]
         IN IF \E i \in DOMAIN init : init[i] = last THEN init ELSE Append(init, last)

\* xs[:n]
Take(xs, n) == SubSeq(xs, 1, IF Len(xs) < n THEN Len(xs) ELSE n)

\* first index >= from whose token is in S, or Len(s) + 1
FirstIn(s, from, S) ==
    LET hits == {i \in from..Len(s) : s[i] \in S}
    IN IF hits = {} THEN Len(s) + 1 ELSE Min(hits)

\* first index >= from whose token is not in S, or Len(s) + 1
FirstNotIn(s, from, S) ==
    LET hits == {i \in from..Len(s) : s[i] \notin S}
    IN IF hits = {} THEN Len(s) + 1 ELSE Min(hits)

\* s.split(sep) for a one-token separator
RECURSIVE SplitOn(_, _)
SplitOn(s, sep) ==
    LET i == FirstIn(s, 1, {sep})
    IN IF i > Len(s) THEN <<s>>
       ELSE <<SubSeq(s, 1, i - 1)>> \o SplitOn(SubSeq(s, i + 1, Len(s)), sep)

RECURSIVE Flatten(_)
Flatten(xs) == IF xs = <<>> THEN <<>> ELSE Head(xs) \o Flatten(Tail(xs))

SelectSeqLen(xs, n) == SelectSeq(xs, LAMBDA x : StrLen(x) > n)

NonEmptyOnly(xs) == SelectSeq(xs, LAMBDA x : x # <<>>)

StripAll(xs) == [i \in DOMAIN xs |-> Strip(xs[i])]

(***************************************************************************)
(* Character classes of the tokens, as the regular expressions see them    *)
(***************************************************************************)
\* tokens whose first / last character is a word character (\w)
WordStart == Tokens \ {NL, SP, DOT, BUL, DollarAmt}
WordEnd == Tokens \ {NL, SP, DOT, BUL, HdrReq, HdrBen, HdrJobType, HdrDesc}

\* \b before and after the token at index i
BoundaryBefore(s, i) == i = 1 \/ s[i - 1] \notin WordEnd
BoundaryAfter(s, i) == i = Len(s) \/ s[i + 1] \notin WordStart

\* re.search(r'\bkeyword\b', text): a token that is the keyword, between boundaries
WholeWord(s, keyword) ==
    \E i \in DOMAIN s : s[i] = keyword /\ BoundaryBefore(s, i) /\ BoundaryAfter(s, i)

\* [\*\-\•]
BulletMarks == {BUL, "-"}

\* the keyword (lower case) a token begins with, "" for none
KeywordOf(t) ==
    CASE t = KwRequired -> "required"
      [] t = KwSkill -> "skill"
      [] t = JtHybrid -> "hybrid"
      [] t \in {BenefitTokens[i] : i \in DOMAIN BenefitTokens} -> t
      [] OTHER -> ""

(***************************************************************************)
(* Labelled sections: re.search(header[:\n](.*?)(?:terminators), DOTALL)   *)
(***************************************************************************)
NoSection == [matched |-> FALSE, sec |-> <<>>]

\* re.search of one section pattern, then matches.group(1).strip()
SectionOf(text, hdrs, terms) ==
    LET starts == {i \in DOMAIN text :
                     text[i] \in hdrs /\ \E j \in (i + 1)..Len(text) : text[j] \in terms}
    IN IF starts = {} THEN NoSection
       ELSE LET i == Min(starts)
                j == FirstIn(text, i + 1, terms)
            IN [matched |-> TRUE, sec |-> Strip(SubSeq(text, i + 1, j - 1))]

\* for pattern in patterns: ... if matches: ...; break
RECURSIVE FirstSection(_, _)
FirstSection(text, patterns) ==
    IF patterns = <<>> THEN NoSection
    ELSE LET m == SectionOf(text, Head(patterns).hdrs, Head(patterns).terms)
         IN IF m.matched THEN m ELSE FirstSection(text, Tail(patterns))

\* re.findall(r"[\*\-\•]\s*([^\n\*\-\•]+)", section), from index pos on.
\* \s* is greedy; when nothing is left for the group it gives characters
\* back, and the group is then the last space before the point of failure.
RECURSIVE BulletPoints(_, _)
BulletPoints(s, pos) ==
    LET i == FirstIn(s, pos, BulletMarks)
    IN IF i > Len(s) THEN <<>>
       ELSE LET j == FirstNotIn(s, i + 1, {SP, NL})
                e == FirstIn(s, j, {NL} \cup BulletMarks) - 1
                sps == {k \in (i + 1)..(j - 1) : s[k] = SP}
            IN IF e >= j THEN <<SubSeq(s, j, e)>> \o BulletPoints(s, e + 1)
               ELSE IF sps # {} THEN <<<<SP>>>> \o BulletPoints(s, Max(sps) + 1)
               ELSE BulletPoints(s, i + 1)

\* the bullet / line-split cascade shared by requirements and benefits
SectionItems(sec, minLen) ==
    LET bullet_points == BulletPoints(sec, 1)
    IN IF bullet_points # <<>>
       THEN NonEmptyOnly(StripAll(bullet_points))
       ELSE SelectSeqLen(NonEmptyOnly(StripAll(SplitOn(sec, NL))), minLen)

(***************************************************************************)
(* extract_job_requirements                                                *)
(***************************************************************************)
req_terminators == {"Benefits:", "Apply", "About Us", "Company"}
req_patterns ==
    <<[hdrs |-> {"Requirements:", "Requirement:"}, terms |-> req_terminators],
      [hdrs |-> {"Qualifications:", "Qualification:"}, terms |-> req_terminators],
      [hdrs |-> {"Skills:"}, terms |-> req_terminators]>>
skill_keywords == <<"experience with", "proficient in", "knowledge of", "degree in",
                    "years of experience", "background in", "skill", "ability to">>
ReqLineMin == 15
ReqCap == 10

\* re.finditer(keyword + r"[^.]+\.", text): from the keyword to the next '.',
\* with at least one character in between
RECURSIVE SkillSentences(_, _, _)
SkillSentences(text, keyword, pos) ==
    LET starts == {i \in pos..Len(text) :
                     /\ KeywordOf(text[i]) = keyword
                     /\ FirstIn(text, i + 1, {DOT}) <= Len(text)
                     /\ StrLen(SubSeq(text, i, FirstIn(text, i + 1, {DOT}) - 1))
                            > Len(keyword)}
    IN IF starts = {} THEN <<>>
       ELSE LET i == Min(starts)
                d == FirstIn(text, i + 1, {DOT})
            IN <<Strip(SubSeq(text, i, d))>> \o SkillSentences(text, keyword, d + 1)

RECURSIVE SkillScan(_, _)
SkillScan(text, keywords) ==
    IF keywords = <<>> THEN <<>>
    ELSE SkillSentences(text, Head(keywords), 1) \o SkillScan(text, Tail(keywords))

\* the requirements list before deduplication and the cap
RawRequirements(text) ==
    LET req_section == FirstSection(text, req_patterns).sec
        fromSection == IF req_section # <<>>
                       THEN SectionItems(req_section, ReqLineMin) ELSE <<>>
    IN IF fromSection # <<>> THEN fromSection ELSE SkillScan(text, skill_keywords)

extract_job_requirements(text) == Take(Dedup(RawRequirements(text)), ReqCap)

(***************************************************************************)
(* extract_job_type                                                        *)
(***************************************************************************)
job_type_labels == {"Job Type:", "Employment Type:"}
job_type_keywords == <<"full-time", "part-time", "contract", "temporary", "freelance",
                       "permanent", "remote", "hybrid">>
JobTypeSentinel == <<"Not specified">>

\* the text (in the casing of the page) that the canonical-term pattern
\* (Full[- ]Time|...|Remote), IGNORECASE, finds in a token; "" for none
JobTermIn(t) ==
    CASE t = JtRemote -> "Remote"
      [] t = KwRemoteWork -> "remote"
      [] OTHER -> ""

\* str.title() of the job-type and benefit keywords
TitleCase(k) ==
    CASE k = "hybrid" -> "Hybrid"
      [] k = "remote" -> "Remote"
      [] k = "health insurance" -> "Health Insurance"
      [] k = "dental insurance" -> "Dental Insurance"
      [] k = "vision insurance" -> "Vision Insurance"
      [] k = "401k" -> "401K"
      [] k = "retirement" -> "Retirement"
      [] k = "paid time off" -> "Paid Time Off"
      [] k = "pto" -> "Pto"
      [] k = "vacation" -> "Vacation"
      [] k = "remote work" -> "Remote Work"
      [] k = "flexible" -> "Flexible"
      [] k = "bonus" -> "Bonus"
      [] OTHER -> k

\* group(1) of (?:Job|Employment) Type:?\s*([^\n\.;]+) matched at the label token i.
\* \s* is greedy and gives back when nothing is left for the group: the group is
\* then the last space of the run, and without a space the ':' the label gave back.
LabelGroup(text, i) ==
    LET j == FirstNotIn(text, i + 1, {SP, NL})
        e == FirstIn(text, j, {NL, DOT}) - 1
        sps == {k \in (i + 1)..(j - 1) : text[k] = SP}
    IN IF e >= j THEN SubSeq(text, j, e)
       ELSE IF sps # {} THEN <<SP>>
       ELSE <<":">>

extract_job_type(text) ==
    LET labels == {i \in DOMAIN text : text[i] \in job_type_labels}
        terms == {i \in DOMAIN text : JobTermIn(text[i]) # ""}
        kws == {k \in DOMAIN job_type_keywords : WholeWord(text, job_type_keywords[k])}
    IN IF labels # {} THEN Strip(LabelGroup(text, Min(labels)))
       ELSE IF terms # {} THEN <<JobTermIn(text[Min(terms)])>>
       ELSE IF kws # {} THEN <<TitleCase(job_type_keywords[Min(kws)])>>
       ELSE JobTypeSentinel

(***************************************************************************)
(* extract_benefits                                                        *)
(***************************************************************************)
ben_terminators == {"Apply", "About Us", "Company"}
benefit_patterns ==
    <<[hdrs |-> {"Benefits:"}, terms |-> ben_terminators],
      [hdrs |-> {"Perks:"}, terms |-> ben_terminators],
      [hdrs |-> {"What we offer:"}, terms |-> ben_terminators]>>
benefit_keywords == <<"health insurance", "dental insurance", "vision insurance", "401k",
                      "retirement", "paid time off", "pto", "vacation", "remote work",
                      "flexible", "bonus">>
BenLineMin == 10
BenCap == 8

\* for keyword in benefit_keywords: if re.search(r'\bkeyword\b', ...): append(keyword.title())
RECURSIVE BenefitScan(_, _)
BenefitScan(text, keywords) ==
    IF keywords = <<>> THEN <<>>
    ELSE LET k == Head(keywords)
             hit == WholeWord(text, k)
         IN (IF hit THEN <<<<TitleCase(k)>>>> ELSE <<>>) \o BenefitScan(text, Tail(keywords))

RawBenefits(text) ==
    LET benefit_section == FirstSection(text, benefit_patterns).sec
        fromSection == IF benefit_section # <<>>
                       THEN SectionItems(benefit_section, BenLineMin) ELSE <<>>
    IN IF fromSection # <<>> THEN fromSection ELSE BenefitScan(text, benefit_keywords)

extract_benefits_uncapped(text) == Dedup(RawBenefits(text))

extract_benefits(text) == Take(Dedup(RawBenefits(text)), BenCap)

(***************************************************************************)
(* extract_salary.  A salary stands in the texts of the model as whole     *)
(* tokens: a "$" amount, a bare amount, a currency code, "-" and a         *)
(* per-period suffix, with whitespace between them; an amount is never     *)
(* written up against other digits.  A '.' and a token that begins with    *)
(* two digits extend a "$" amount by (?:\.\d{2}).                          *)
(***************************************************************************)
SalarySentinel == <<"Salary not specified">>
DollarHigh == "$95,000"
Amount == "70,000"
CodeUsd == "USD"
PerYear == "per year"

\* the two digits a token begins with, "" for none
TwoDigits(t) == IF t = Kw401k THEN "40" ELSE ""

DollarAmounts == {DollarAmt, DollarHigh}
Codes == {CodeUsd}

\* the token after any whitespace from position i on
AfterWs(text, i) == FirstNotIn(text, i, {SP, NL})
TokenAt(text, i) == IF i \in DOMAIN text THEN text[i] ELSE ""

\* the amount at i goes on with (?:\.\d{2}), which ends the match inside a token
HasCents(text, i) ==
    i + 2 <= Len(text) /\ text[i + 1] = DOT /\ TwoDigits(text[i + 2]) # ""

\* group(1) of the first pattern, "$" amount, optional range, optional per-period
\* suffix, at its leftmost match; <<>> for no match
DollarSalary(text) ==
    LET i == FirstIn(text, 1, DollarAmounts)
        j == AfterWs(text, i + 1)
        k == AfterWs(text, j + 1)
        ranged == TokenAt(text, j) = DASH /\ TokenAt(text, k) \in DollarAmounts
        e == IF ranged THEN k ELSE i
        m == AfterWs(text, e + 1)
    IN IF i > Len(text) THEN <<>>
       ELSE IF HasCents(text, i) THEN <<text[i], DOT, TwoDigits(text[i + 2])>>
       ELSE IF ranged /\ HasCents(text, k)
            THEN SubSeq(text, i, k) \o <<DOT, TwoDigits(text[k + 2])>>
       ELSE IF TokenAt(text, m) = PerYear THEN SubSeq(text, i, m)
       ELSE SubSeq(text, i, e)

\* group(1) of the second pattern, code then amount, optional range
CodeFirstSalary(text) ==
    LET starts == {i \in DOMAIN text :
                      text[i] \in Codes /\ TokenAt(text, AfterWs(text, i + 1)) = Amount}
        i == Min(starts)
        a == AfterWs(text, i + 1)
        j == AfterWs(text, a + 1)
        c == AfterWs(text, j + 1)
        a2 == AfterWs(text, c + 1)
    IN IF starts = {} THEN <<>>
       ELSE IF TokenAt(text, j) = DASH /\ TokenAt(text, c) \in Codes
               /\ TokenAt(text, a2) = Amount
            THEN SubSeq(text, i, a2)
       ELSE SubSeq(text, i, a)

\* group(1) of the third pattern, amount then code, optional range
CodeLastSalary(text) ==
    LET starts == {i \in DOMAIN text :
                      text[i] = Amount /\ TokenAt(text, AfterWs(text, i + 1)) \in Codes}
        i == Min(starts)
        c == AfterWs(text, i + 1)
        j == AfterWs(text, c + 1)
        a2 == AfterWs(text, j + 1)
        c2 == AfterWs(text, a2 + 1)
    IN IF starts = {} THEN <<>>
       ELSE IF TokenAt(text, j) = DASH /\ TokenAt(text, a2) = Amount
               /\ TokenAt(text, c2) \in Codes
            THEN SubSeq(text, i, c2)
       ELSE SubSeq(text, i, c)

extract_salary_leftmost(text) ==
    LET found == {m \in {DollarSalary(text), CodeFirstSalary(text), CodeLastSalary(text)} :
                     m # <<>>}
        at(m) == Min({i \in 1..(Len(text) - Len(m) + 1) : SubSeq(text, i, i + Len(m) - 1) = m})
    IN IF found = {} THEN SalarySentinel
       ELSE CHOOSE m \in found : \A n \in found : at(m) <= at(n)

\* for pattern in salary_patterns: the first pattern that matches decides
extract_salary(text) ==
    IF DollarSalary(text) # <<>> THEN DollarSalary(text)
    ELSE IF CodeFirstSalary(text) # <<>> THEN CodeFirstSalary(text)
    ELSE IF CodeLastSalary(text) # <<>> THEN CodeLastSalary(text)
    ELSE SalarySentinel

(***************************************************************************)
(* extract_job_description.  The parsed page (soup) enters as the outcome  *)
(* of soup.select_one for each selector, in selector order:                *)
(* [found |-> whether an element matched, text |-> its get_text(strip)].   *)
(***************************************************************************)
description_selectors == <<"div.job-description", "div.description", "#job-description",
                           ".jobSectionHeader", "[data-testid='jobDescriptionText']",
                           ".description__text">>
desc_patterns ==
    <<[hdrs |-> {"Job Description:", "Position Description:"},
       terms |-> {"Requirements:", "Qualifications:", "Responsibilities:", "About"}],
      [hdrs |-> {"About the job:"},
       terms |-> {"Requirements:", "Qualifications:", "Responsibilities:"}],
      [hdrs |-> {"Overview:"},
       terms |-> {"Requirements:", "Qualifications:", "Responsibilities:"}]>>
DescFallbackLen == 500
Ellipsis == "..."

\* for selector in description_selectors: if section: get_text; break
SelectedText(selected) ==
    LET hits == {i \in DOMAIN selected : selected[i].found}
    IN IF hits = {} THEN <<>> ELSE selected[Min(hits)].text

extract_job_description(selected, text) ==
    LET bySelector == SelectedText(selected)
        byPattern == FirstSection(text, desc_patterns).sec
    IN IF bySelector # <<>> THEN bySelector
       ELSE IF byPattern # <<>> THEN byPattern
       ELSE Truncate(text, DescFallbackLen) \o <<Ellipsis>>

(***************************************************************************)
(* extract_application_link.  The page enters as the outcome of            *)
(* soup.select_one for each apply selector: kind "none" (no element),      *)
(* "nohref" (element without a href, or an empty one), "raise" (the        *)
(* selector is not supported) or "href" (with the href).                   *)
(***************************************************************************)
apply_selectors == <<"a.apply-button", "a.job-apply", "a[data-automation='job-detail-apply']",
                     "a:contains('Apply')", "a.btn-apply", ".jobsearch-IndeedApplyButton">>

extract_application_link(applied, default_url) ==
    LET hits == {i \in DOMAIN applied : applied[i].kind = "href"}
    IN IF hits = {} THEN default_url ELSE applied[Min(hits)].href

(***************************************************************************)
(* The keyword-anchored sentence scan of get_job_details                   *)
(***************************************************************************)
requirement_keywords == <<"required", "qualification", "skill", "experience", "knowledge",
                          "proficiency", "ability", "competency", "education", "degree">>
PotentialMin == 10

\* tokens that hold one of the characters . ; : (a ':' only as their last character)
ColonTokens == {HdrReq, HdrBen, HdrJobType, HdrDesc}

\* the end of keyword[^\.;:]*(?:\.|\n|$) for the keyword token at k, 0 for no match:
\* the run goes to the next '.', to the end of the text, or, when a ':' stops
\* it, back to the last newline it holds
ScanEnd(text, k) ==
    LET stop == FirstIn(text, k + 1, {DOT} \cup ColonTokens)
        nls == {n \in (k + 1)..(stop - 1) : text[n] = NL}
    IN IF stop > Len(text) THEN Len(text)
       ELSE IF text[stop] = DOT THEN stop
       ELSE IF nls # {} THEN Max(nls)
       ELSE 0

\* re.finditer(r'(?:^|\n|\s)(keyword[^\.;:]*(?:\.|\n|$))', text) from pos on:
\* the groups, stripped
RECURSIVE ScanMatches(_, _, _)
ScanMatches(text, keyword, pos) ==
    LET atStart == IF pos = 1 /\ Len(text) >= 1 /\ KeywordOf(text[1]) = keyword
                      /\ ScanEnd(text, 1) # 0
                   THEN {1} ELSE {}
        afterWs == {k \in (pos + 1)..Len(text) :
                      /\ IsWs(text[k - 1])
                      /\ KeywordOf(text[k]) = keyword
                      /\ ScanEnd(text, k) # 0}
        ks == atStart \cup afterWs
    IN IF ks = {} THEN <<>>
       ELSE LET k == Min(ks)
                e == ScanEnd(text, k)
            IN <<Strip(SubSeq(text, k, e))>> \o ScanMatches(text, keyword, e + 1)

RECURSIVE PotentialRequirements(_, _)
PotentialRequirements(text, keywords) ==
    IF keywords = <<>> THEN <<>>
    ELSE SelectSeqLen(ScanMatches(text, Head(keywords), 1), PotentialMin)
         \o PotentialRequirements(text, Tail(keywords))

(***************************************************************************)
(* URLs, as token sequences ('/' and '-' are tokens of their own)          *)
(***************************************************************************)
UrlListing == <<"https:", SLASH, SLASH, "example.com", SLASH, "jobs", SLASH,
                "data", DASH, "engineer">>
UrlEmpty == <<>>

\* a URL whose last path segment is 5000 digits long
RECURSIVE Repeat(_, _)
Repeat(str, n) ==
    IF n = 0 THEN ""
    ELSE IF n % 2 = 1 THEN str \o Repeat(str, n - 1)
    ELSE LET half == Repeat(str, n \div 2) IN half \o half
UrlLong == <<"https:", SLASH, SLASH, "example.com", SLASH, Repeat("0123456789", 500)>>

Urls == {UrlListing, UrlEmpty, UrlLong}

\* requests.get raises MissingSchema for a URL without a scheme, before any request
HasScheme(u) == Len(u) >= 1 /\ u[1] = "https:"

\* one word of str.title()
TitleWord(t) ==
    CASE t = "data" -> "Data"
      [] t = "engineer" -> "Engineer"
      [] t = "jobs" -> "Jobs"
      [] t = "https:" -> "Https:"
      [] t = "example.com" -> "Example.Com"
      [] OTHER -> t

\* url.split('/')[-1].replace('-', ' ').title()
JobTitleOf(u) ==
    LET segs == SplitOn(u, SLASH)
        last == segs[Len(segs)]
    IN [i \in DOMAIN last |-> IF last[i] = DASH THEN SP ELSE TitleWord(last[i])]

(***************************************************************************)
(* JobRecord: what get_job_details returns                                 *)
(***************************************************************************)
FullTextCap == 5000

JobRecord(d, r, s, j, b, a, f) ==
    [description |-> d, requirements |-> r, salary |-> s, job_type |-> j,
     benefits |-> b, application_link |-> a, full_text |-> f]

PlaceholderWithoutLink(u) ==
    JobRecord(<<"This is a job listing.">>, << <<"Relevant skills and qualifications">> >>,
              <<"Salary not specified">>, <<"Not specified">>, <<>>, <<>>, <<>>)

\* the except clause of get_job_details: the record built from the URL alone
Placeholder(u) ==
    LET job_title == JobTitleOf(u)
    IN JobRecord(
        <<"This is a job listing for a ">> \o job_title
            \o <<" position. The original job posting contains more detailed information.">>,
        << <<"Experience with ">> \o job_title \o <<" or similar roles">>,
           <<"Relevant skills and qualifications">>,
           <<"Education requirements as specified in the job posting">>,
           <<"Communication and teamwork skills">> >>,
        <<"Please refer to the original job listing for salary information">>,
        <<"Full-time (refer to original listing for confirmation)">>,
        << <<"Visit the original job listing for complete benefits information">> >>,
        u,
        <<"This is a simplified version of the job listing. Please visit the original posting at ">>
            \o u \o <<" for complete details.">>)

\* "if not description": the description synthesized from the URL
FinalDescription(u, d) ==
    IF d # <<>> THEN d
    ELSE <<"This job listing is for a ">> \o JobTitleOf(u)
         \o <<" position. The full job details and requirements can be accessed on the original job posting.">>

\* "if not requirements": the sentence scan of the text, then the generic list
FinalRequirements(u, text, r) ==
    IF r # <<>> THEN r
    ELSE LET potential_requirements == PotentialRequirements(text, requirement_keywords)
         IN IF potential_requirements # <<>>
            THEN Take(potential_requirements, ReqCap)
            ELSE << <<"Relevant experience in ">> \o JobTitleOf(u) \o <<" or related field">>,
                    <<"Strong communication skills">>,
                    <<"Problem-solving abilities">>,
                    <<"Ability to work effectively in a team">> >>

\* the job_details dict of the success path
Details(u, text, d, r, applied) ==
    JobRecord(FinalDescription(u, d),
              FinalRequirements(u, text, r),
              extract_salary(text),
              extract_job_type(text),
              extract_benefits(text),
              extract_application_link(applied, u),
              Truncate(text, FullTextCap))

NoRecord == JobRecord(<<>>, <<>>, <<>>, <<>>, <<>>, <<>>, <<>>)
NoResult == [kind |-> "none", rec |-> NoRecord]
Returned(rec) == [kind |-> "record", rec |-> rec]
Raised == [kind |-> "raised", rec |-> NoRecord]

OnExceptionPropagates(u) == Raised

\* "except Exception as e": what the caller gets when the try block raised
OnException(u) == Returned(Placeholder(u))

(***************************************************************************)
(* The environment: pages, parsed-page lookups, HTTP statuses              *)
(***************************************************************************)
MaxTextLen == 2
MaxItems == 11
MaxAltLen == 2

SeqsUpTo(A, n) == UNION {[1..k -> A] : k \in 0..n}

ShortAlphabet == {NL, SP, DOT, KwRequired, KwSkill, HdrJobType}
AltAlphabet == {DOT, KwSkill}

Words(k) == [i \in 1..k |-> Word]

\* n items, the i-th with ((i - 1) mod d) + 1 words: d distinct items
Items(n, d, pre, post) ==
    Flatten([i \in 1..n |-> pre \o Words(((i - 1) % d) + 1) \o post])

Shapes == {<<n, d>> \in (0..MaxItems) \X (1..MaxItems) :
             \/ n = 0 /\ d = 1
             \/ n >= 1 /\ d \in {1, n}}

\* bulleted Requirements and Benefits sections
SectionPage(n, d) ==
    <<HdrReq, NL>> \o Items(n, d, <<BUL, SP>>, <<NL>>)
    \o <<HdrBen, NL>> \o Items(n, d, <<BUL, SP>>, <<NL>>) \o <<TermApply>>

\* sections of plain lines
LinePage(n, d) ==
    <<HdrReq, NL>> \o Items(n, d, <<KwSkill, SP>>, <<NL>>)
    \o <<HdrBen, NL>> \o Items(n, d, <<KwHealth, SP>>, <<NL>>) \o <<TermApply>>

\* no section: sentences with a skill keyword
SkillPage(n, d) == Items(n, d, <<KwSkill, SP>>, <<DOT, NL>>)

\* no section and no skill keyword: sentences the scan of get_job_details finds
ScanPage(n, d) == Items(n, d, <<KwRequired, SP>>, <<DOT, SP>>)

\* the first n benefit keywords
BenefitPage(n) == Flatten([i \in 1..n |-> <<BenefitTokens[i], SP>>])

FullPage ==
    <<HdrDesc, NL, Word, SP, Word, NL, HdrReq, NL, BUL, SP, KwSkill, NL,
      HdrBen, NL, BUL, SP, KwHealth, NL, HdrJobType, SP, JtRemote, NL,
      DollarAmt, NL, TermApply>>

LongTexts ==
    {SectionPage(p[1], p[2]) : p \in Shapes} \cup {LinePage(p[1], p[2]) : p \in Shapes}
    \cup {SkillPage(p[1], p[2]) : p \in Shapes} \cup {ScanPage(p[1], p[2]) : p \in Shapes}
    \cup {BenefitPage(n) : n \in 7..Len(BenefitTokens)} \cup {FullPage}

\* html2text ends its output with a blank line
Normalized(body) == body \o <<NL, NL>>

\* h2t.handle(response.text) of the listing page
Pages == {Normalized(b) : b \in SeqsUpTo(ShortAlphabet, MaxTextLen) \cup LongTexts}

\* h2t.handle(alt_response.text) of an alternate source
AltPages == {Normalized(b) : b \in SeqsUpTo(AltAlphabet, MaxAltLen)}

NotFound == [found |-> FALSE, text |-> <<>>]
Found(t) == [found |-> TRUE, text |-> t]
BlockText == <<"About the role">>

\* soup.select_one(selector) for the six description selectors
Selections ==
    {<<NotFound, NotFound, NotFound, NotFound, NotFound, NotFound>>,
     <<NotFound, NotFound, Found(BlockText), NotFound, NotFound, NotFound>>,
     <<NotFound, Found(<<>>), NotFound, NotFound, Found(BlockText), NotFound>>}

NoElem == [kind |-> "none", href |-> <<>>]
NoHref == [kind |-> "nohref", href |-> <<>>]
Unsupported == [kind |-> "raise", href |-> <<>>]
Href(h) == [kind |-> "href", href |-> h]
ApplyUrl == <<"https:", SLASH, SLASH, "example.com", SLASH, "apply">>

\* soup.select_one(selector) for the six apply selectors
Applies ==
    {<<NoElem, NoElem, NoElem, NoElem, NoElem, NoElem>>,
     <<NoElem, NoElem, NoElem, Unsupported, NoElem, NoElem>>,
     <<NoHref, NoElem, NoElem, Unsupported, Href(ApplyUrl), NoElem>>}

TitleSep == " - "
\* soup.find("title").text ("" when there is no title tag)
PageTitles == {<<>>, <<SP>>, <<"Data Engineer", TitleSep, "Acme">>}

Statuses == {200, 204, 304, 404}

\* the statuses a server answers for this URL: no page lives at the overlong path
StatusesFor(u) == IF u = UrlLong THEN {404} ELSE Statuses
AltStatuses == {200, 404}

\* Response.raise_for_status(): HTTPError for 4xx and 5xx
RaisesForStatus(st) == 400 <= st /\ st < 600

NumAgents == 4
AltMaxResults == 3

(***************************************************************************)
(* get_job_details(url)                                                    *)
(***************************************************************************)
\* "if response.status_code != 200": the first response sends the call into the rotation
NeedsRotation(st) == st # 200

RotationEndsWithoutBreak(st, agent) == agent = NumAgents

\* "if response.status_code == 200: break", or user_agents[1:] is exhausted
RotationEnds(st, agent) == st = 200 \/ agent = NumAgents

NeedsRecoveryAlways(d, r) == TRUE

\* "if not description or not requirements"
NeedsRecovery(d, r) == d = <<>> \/ r = <<>>

\* "if description and requirements: break"
HasBoth(d, r) == d # <<>> /\ r # <<>>

AfterAltRecoversAgain(d, r, i, n) ==
    IF HasBoth(d, r) THEN "fill" ELSE IF i = n THEN "recover" ELSE "altloop"

\* where the loop over alt_results goes after the i-th result, of n
AfterAlt(d, r, i, n) == IF HasBoth(d, r) \/ i = n THEN "fill" ELSE "altloop"

AfterAltFailureStops(i, n) == "fill"

\* where the loop goes after a result whose fetch failed ("except Exception: continue",
\* or a status other than 200)
AfterAltFailure(i, n) == IF i = n THEN "fill" ELSE "altloop"

\* title and company from the title tag, and the query of the secondary search
TitlePart(t) == Strip(SplitOn(t, TitleSep)[1])
CompanyPart(t) ==
    LET title_parts == SplitOn(t, TitleSep)
    IN IF Len(title_parts) > 1 THEN Strip(title_parts[2]) ELSE <<>>
SecondaryQuery(t) ==
    TitlePart(t) \o <<" job description">>
    \o (IF CompanyPart(t) # <<>> THEN <<SP>> \o CompanyPart(t) ELSE <<>>)

FetchInit ==
    /\ pc = "start"
    /\ url \in Urls
    /\ status = 0
    /\ text_content = <<>>
    /\ description = <<>>
    /\ requirements = <<>>
    /\ search_query = <<>>
    /\ alt_n = 0
    /\ alt_i = 0
    /\ alt_status = 0
    /\ result = NoResult
    /\ gets = 0
    /\ searches = 0

\* response = requests.get(url, headers=headers, timeout=15), primary identity
FirstGet ==
    /\ pc = "start"
    /\ \/ /\ pc' = "except"
          /\ gets' = IF HasScheme(url) THEN gets + 1 ELSE gets
          /\ UNCHANGED status
       \/ /\ HasScheme(url)
          /\ \E st \in StatusesFor(url) :
                /\ status' = st
                /\ pc' = IF NeedsRotation(st) THEN "rotate" ELSE "check"
          /\ gets' = gets + 1
    /\ UNCHANGED <<url, text_content, description, requirements, search_query,
                   alt_n, alt_i, alt_status, result, searches>>

\* for agent in user_agents[1:]: response = requests.get(...); if 200: break
RotateGet ==
    /\ pc = "rotate"
    /\ gets < NumAgents
    /\ gets' = gets + 1
    /\ \/ /\ pc' = "except"
          /\ UNCHANGED status
       \/ \E st \in StatusesFor(url) :
             /\ status' = st
             /\ pc' = IF RotationEnds(st, gets + 1) THEN "check" ELSE "rotate"
    /\ UNCHANGED <<url, text_content, description, requirements, search_query,
                   alt_n, alt_i, alt_status, result, searches>>

\* response.raise_for_status()
CheckStatus ==
    /\ pc = "check"
    /\ pc' = IF RaisesForStatus(status) THEN "except" ELSE "extract"
    /\ UNCHANGED <<url, status, text_content, description, requirements,
                   search_query, alt_n, alt_i, alt_status, result, gets, searches>>

\* soup = BeautifulSoup(...); text_content = h2t.handle(...); description = ...;
\* requirements = ...  (or the parsing raises)
Extract ==
    /\ pc = "extract"
    /\ \/ /\ pc' = "except"
          /\ UNCHANGED <<text_content, description, requirements>>
       \/ \E text \in Pages, selected \in Selections :
             LET d == extract_job_description(selected, text)
                 r == extract_job_requirements(text)
             IN /\ text_content' = text
                /\ description' = d
                /\ requirements' = r
                /\ pc' = IF NeedsRecovery(d, r) THEN "recover" ELSE "fill"
    /\ UNCHANGED <<url, status, search_query, alt_n, alt_i, alt_status,
                   result, gets, searches>>

\* title from the title tag; "if title:" alt_results = list(ddgs.text(search_query, max_results=3))
Recover ==
    /\ pc = "recover"
    /\ \E t \in PageTitles :
          IF TitlePart(t) = <<>>
          THEN /\ pc' = "fill"
               /\ UNCHANGED <<search_query, alt_n, searches>>
          ELSE /\ search_query' = SecondaryQuery(t)
               /\ searches' = searches + 1
               /\ \/ /\ pc' = "fill"
                     /\ alt_n' = 0
                  \/ \E n \in 0..AltMaxResults :
                        /\ alt_n' = n
                        /\ pc' = IF n = 0 THEN "fill" ELSE "altloop"
    /\ UNCHANGED <<url, status, text_content, description, requirements,
                   alt_i, alt_status, result, gets>>

\* one iteration of "for result in alt_results"
AltFetch ==
    /\ pc = "altloop"
    /\ alt_i < alt_n
    /\ alt_i' = alt_i + 1
    /\ \/ \* result.get or requests.get raises: except Exception: continue
          /\ alt_status' = 0
          /\ pc' = AfterAltFailure(alt_i + 1, alt_n)
          /\ UNCHANGED <<description, requirements>>
       \/ \* a status other than 200
          /\ \E st \in AltStatuses \ {200} : alt_status' = st
          /\ pc' = AfterAltFailure(alt_i + 1, alt_n)
          /\ UNCHANGED <<description, requirements>>
       \/ \* 200: extract what is still missing
          /\ alt_status' = 200
          /\ \E alt_text \in AltPages :
             \E alt_selected \in IF description = <<>> THEN Selections
                                 ELSE {CHOOSE x \in Selections : TRUE} :
                LET d == IF description = <<>>
                         THEN extract_job_description(alt_selected, alt_text)
                         ELSE description
                    r == IF requirements = <<>>
                         THEN extract_job_requirements(alt_text)
                         ELSE requirements
                IN /\ description' = d
                   /\ requirements' = r
                   /\ pc' = AfterAlt(d, r, alt_i + 1, alt_n)
    /\ UNCHANGED <<url, status, text_content, search_query, alt_n,
                   result, gets, searches>>

\* the fallbacks for description and requirements, job_details = {...}; return job_details
Fill ==
    /\ pc = "fill"
    /\ \E applied \in Applies :
          result' = Returned(Details(url, text_content, description, requirements, applied))
    /\ pc' = "done"
    /\ UNCHANGED <<url, status, text_content, description, requirements,
                   search_query, alt_n, alt_i, alt_status, gets, searches>>

ExceptResumesRotation ==
    /\ pc = "except"
    /\ IF gets < NumAgents /\ text_content = <<>>
       THEN pc' = "rotate" /\ UNCHANGED result
       ELSE result' = OnException(url) /\ pc' = "done"
    /\ UNCHANGED <<url, status, text_content, description, requirements,
                   search_query, alt_n, alt_i, alt_status, gets, searches>>

\* except Exception as e: ... return {...}
Except ==
    /\ pc = "except"
    /\ result' = OnException(url)
    /\ pc' = "done"
    /\ UNCHANGED <<url, status, text_content, description, requirements,
                   search_query, alt_n, alt_i, alt_status, gets, searches>>

(***************************************************************************)
(* search_jobs and its helpers                                             *)
(***************************************************************************)
InSep == " in "
SnLocation == "Location:"
SnIn == "in"
SnCity == "Paris"
COMMA == ","
SEMI == ";"

Has(s, t) == \E i \in DOMAIN s : s[i] = t

\* a value of a provider entry: a string, None, or no such key
Str(v) == [tag |-> "str", val |-> v]
None == [tag |-> "none", val |-> <<>>]
Missing == [tag |-> "missing", val |-> <<>>]

GetWithoutDefault(entry, key) == entry[key]

\* result.get(key, "")
Get(entry, key) == IF entry[key].tag = "missing" THEN Str(<<>>) ELSE entry[key]

extract_company_last_segment(title) ==
    LET parts == SplitOn(title, TitleSep)
    IN IF Len(parts) > 1 THEN Strip(parts[Len(parts)]) ELSE <<"Unknown Company">>

extract_company_from_title(title) ==
    LET parts == SplitOn(title, TitleSep)
    IN IF Len(parts) > 1 THEN Strip(parts[2]) ELSE <<"Unknown Company">>

\* group(1) of https?://(?:www\.)?([^/]+) matched at the scheme token i, <<>> for no match;
\* "www." is given back to the group when nothing else is left for it
DomainAt(u, i) ==
    IF ~(i + 2 <= Len(u) /\ u[i] \in {"https:", "http:"} /\ u[i + 1] = SLASH /\ u[i + 2] = SLASH)
    THEN <<>>
    ELSE LET k == i + 3
             www == k <= Len(u) /\ u[k] = "www."
             from == IF www THEN k + 1 ELSE k
             e == FirstIn(u, from, {SLASH}) - 1
         IN IF e >= from THEN SubSeq(u, from, e)
            ELSE IF www THEN <<"www.">>
            ELSE <<>>

extract_domain(href) ==
    LET u == href.val
        hits == {i \in DOMAIN u : DomainAt(u, i) # <<>>}
    IN IF href.tag = "str" /\ hits # {} THEN DomainAt(u, Min(hits))
       ELSE <<"Unknown Source">>

\* the title stage of extract_location; <<>> stands for None and for ""
TitleLocation(title) ==
    IF Has(title, TitleSep) /\ Has(title, InSep)
    THEN LET parts == SplitOn(title, TitleSep)
         IN IF Len(parts) > 1 /\ Has(parts[2], InSep)
            THEN Strip(SplitOn(parts[2], InSep)[2])
            ELSE <<>>
    ELSE <<>>

location_terms == {"Remote", "remote", "hybrid", "on-site"}
LocationClass == {SnIn, SnCity, SP, NL, COMMA, "Remote", "remote", "hybrid"}

\* group(1) of location:?\s*([^\.;]+) at the label token i: \s* gives back its last
\* character when nothing is left for the group, and without whitespace the label
\* gives back its ':'
LocationGroup(text, i) ==
    LET j == FirstNotIn(text, i + 1, {SP, NL})
        e == FirstIn(text, j, {DOT, SEMI}) - 1
    IN IF e >= j THEN SubSeq(text, j, e)
       ELSE IF j > i + 1 THEN <<text[j - 1]>>
       ELSE <<":">>

\* group(1) of in\s+([A-Za-z\s,]+(?:remote|hybrid|on-site)) at the token i, <<>> for no
\* match: the group runs to the last term of the run of letters, whitespace and commas,
\* and needs a character before that term, which \s+ gives back if it has two
InGroup(text, i) ==
    IF ~(text[i] = SnIn /\ i + 1 <= Len(text) /\ IsWs(text[i + 1]))
    THEN <<>>
    ELSE LET j == FirstNotIn(text, i + 1, {SP, NL})
             e == FirstNotIn(text, j, LocationClass) - 1
             later == {t \in (j + 1)..e : text[t] \in location_terms}
         IN IF later # {} THEN SubSeq(text, j, Max(later))
            ELSE IF j <= e /\ text[j] \in location_terms /\ j > i + 2
                 THEN SubSeq(text, j - 1, j)
            ELSE <<>>

\* the snippet stage of extract_location: the first of location_patterns that
\* matches decides, even when its group strips to nothing
SnippetLocation(snippet) ==
    LET labels == {i \in DOMAIN snippet : snippet[i] = SnLocation}
        ins == {i \in DOMAIN snippet : InGroup(snippet, i) # <<>>}
        terms == {i \in DOMAIN snippet : snippet[i] \in location_terms}
    IN IF labels # {} THEN Strip(LocationGroup(snippet, Min(labels)))
       ELSE IF ins # {} THEN Strip(InGroup(snippet, Min(ins)))
       ELSE IF terms # {} THEN <<snippet[Min(terms)]>>
       ELSE <<>>

extract_location_snippet_first(title, snippet, default_location) ==
    IF SnippetLocation(snippet) # <<>> THEN SnippetLocation(snippet)
    ELSE IF TitleLocation(title) # <<>> THEN TitleLocation(title)
    ELSE IF default_location # <<>> THEN default_location
    ELSE <<"Not specified">>

\* return title_location or snippet_location or default_location or "Not specified"
extract_location(title, snippet, default_location) ==
    IF TitleLocation(title) # <<>> THEN TitleLocation(title)
    ELSE IF SnippetLocation(snippet) # <<>> THEN SnippetLocation(snippet)
    ELSE IF default_location # <<>> THEN default_location
    ELSE <<"Not specified">>

\* a provider result that is a mapping, and one that is not
Entry(t, h, b) == [mapping |-> TRUE, title |-> t, href |-> h, body |-> b]
NotMapping == [mapping |-> FALSE, title |-> Missing, href |-> Missing, body |-> Missing]

\* building the listing of this result raises: result.get on a non-mapping,
\* None.split, re.search on a None snippet
ListingRaises(entry) ==
    \/ ~entry.mapping
    \/ Get(entry, "title").tag = "none"
    \/ Get(entry, "body").tag = "none"

\* listing = {...}
Listing(entry, location) ==
    [title |-> Strip(SplitOn(Get(entry, "title").val, TitleSep)[1]),
     company |-> extract_company_from_title(Get(entry, "title").val),
     url |-> Get(entry, "href"),
     snippet |-> Get(entry, "body").val,
     source |-> extract_domain(Get(entry, "href")),
     location |-> extract_location(Get(entry, "title").val, Get(entry, "body").val, location),
     full_details |-> None]

SearchQueryWithoutLocation(query, location) == query \o <<" jobs">>

\* search_query = f"{query} jobs" (+ f" in {location}")
SearchQuery(query, location) ==
    query \o <<" jobs">> \o (IF location # <<>> THEN <<InSep>> \o location ELSE <<>>)

AddListingInFront(listings, listing) == <<listing>> \o listings

\* job_listings.append(listing)
AddListing(listings, listing) == Append(listings, listing)

NoOutcome == [kind |-> "none", list |-> <<>>]
ReturnedList(l) == [kind |-> "list", list |-> l]

SearchFailedKeepsListings == [kind |-> "list", list |-> job_listings]

SearchFailedPropagates == [kind |-> "raised", list |-> <<>>]

\* except Exception as e: print(...); return []
SearchFailed == ReturnedList(<<>>)

MaxResults == 2
MaxSnippetLen == 1

SnippetAlphabet == {SnLocation, SP, DOT, SnIn, SnCity, JtRemote}

Snippets ==
    SeqsUpTo(SnippetAlphabet, MaxSnippetLen)
    \cup {<<SnLocation, SP, SnCity, DOT, SP, JtRemote>>,
          <<SnLocation, SP, DOT>>,
          <<SnLocation, SP, DOT, SP, JtRemote>>,
          <<SnIn, SP, SnCity, COMMA, SP, JtRemote, SP, JtRemote, DOT>>,
          <<SnIn, SP, JtRemote>>,
          <<SnIn, SP, SP, JtRemote>>}

JobTitle == "Data Engineer"
Titles ==
    {<<>>, <<JobTitle>>, <<JobTitle, TitleSep, "Acme">>,
     <<JobTitle, TitleSep, "Acme", TitleSep, "Indeed">>,
     <<JobTitle, TitleSep, "Acme", InSep, SnCity>>,
     <<JobTitle, InSep, SnCity, TitleSep, "Acme">>,
     <<JobTitle, TitleSep, "Acme", InSep, SP>>}

Hrefs ==
    {<<>>, <<"example.com">>,
     <<"https:", SLASH, SLASH, "www.", "example.com", SLASH, "jobs">>}

GoodTitle == Str(<<JobTitle, TitleSep, "Acme">>)
GoodHref == Str(<<"https:", SLASH, SLASH, "www.", "example.com", SLASH, "jobs">>)

\* the entries the provider can return: one key of a well-formed entry varies
Entries ==
    {NotMapping, Entry(Missing, Missing, Missing)}
    \cup {Entry(t, GoodHref, Str(<<>>)) : t \in {Missing, None} \cup {Str(x) : x \in Titles}}
    \cup {Entry(GoodTitle, h, Str(<<>>)) : h \in {Missing, None} \cup {Str(x) : x \in Hrefs}}
    \cup {Entry(GoodTitle, GoodHref, b) : b \in {Missing, None} \cup {Str(x) : x \in Snippets}}
    \cup {Entry(Str(t), GoodHref, Str(b)) :
              t \in {<<JobTitle, TitleSep, "Acme", InSep, SnCity>>,
                     <<JobTitle, TitleSep, "Acme", InSep, SP>>},
              b \in {<<SnLocation, SP, SnCity, DOT, SP, JtRemote>>, <<JtRemote>>}}

Args ==
    [query : {<<JobTitle>>}, location : {<<>>, <<SnCity>>}, num_results : 0..MaxResults]

NoArgs == [query |-> <<>>, location |-> <<>>, num_results |-> 0]

SearchIdle ==
    /\ sj_pc = "idle"
    /\ sj_args = NoArgs
    /\ sj_query = <<>>
    /\ sj_results = <<>>
    /\ job_listings = <<>>
    /\ sj_out = NoOutcome
    /\ sj_calls = <<>>

SearchInit ==
    /\ sj_pc = "start"
    /\ sj_args \in Args
    /\ sj_query = <<>>
    /\ sj_results = <<>>
    /\ job_listings = <<>>
    /\ sj_out = NoOutcome
    /\ sj_calls = <<>>

FetchIdle ==
    /\ pc = "idle"
    /\ url = <<>>
    /\ status = 0
    /\ text_content = <<>>
    /\ description = <<>>
    /\ requirements = <<>>
    /\ search_query = <<>>
    /\ alt_n = 0
    /\ alt_i = 0
    /\ alt_status = 0
    /\ result = NoResult
    /\ gets = 0
    /\ searches = 0

\* search_query = ...
SjQuery ==
    /\ sj_pc = "start"
    /\ sj_query' = SearchQuery(sj_args.query, sj_args.location)
    /\ sj_pc' = "call"
    /\ UNCHANGED <<sj_args, sj_results, job_listings, sj_out, sj_calls>>

\* with DDGS() as ddgs: results = list(ddgs.text(search_query, max_results=num_results))
SjSearch ==
    /\ sj_pc = "call"
    /\ \/ /\ sj_calls' = Append(sj_calls, [query |-> sj_query, raised |-> TRUE])
          /\ sj_pc' = "except"
          /\ UNCHANGED sj_results
       \/ /\ sj_calls' = Append(sj_calls, [query |-> sj_query, raised |-> FALSE])
          /\ \E n \in 0..sj_args.num_results : \E rs \in [1..n -> Entries] : sj_results' = rs
          /\ sj_pc' = "loop"
    /\ UNCHANGED <<sj_args, sj_query, job_listings, sj_out>>

\* one iteration of "for result in results"
SjListing ==
    /\ sj_pc = "loop"
    /\ Len(job_listings) < Len(sj_results)
    /\ LET entry == sj_results[Len(job_listings) + 1]
       IN IF ListingRaises(entry)
          THEN /\ sj_pc' = "except"
               /\ UNCHANGED job_listings
          ELSE /\ job_listings' = AddListing(job_listings, Listing(entry, sj_args.location))
               /\ UNCHANGED sj_pc
    /\ UNCHANGED <<sj_args, sj_query, sj_results, sj_out, sj_calls>>

\* return job_listings
SjReturn ==
    /\ sj_pc = "loop"
    /\ Len(job_listings) = Len(sj_results)
    /\ sj_out' = ReturnedList(job_listings)
    /\ sj_pc' = "done"
    /\ UNCHANGED <<sj_args, sj_query, sj_results, job_listings, sj_calls>>

\* except Exception as e: print(...); return []
SjExcept ==
    /\ sj_pc = "except"
    /\ sj_out' = SearchFailed
    /\ sj_pc' = "done"
    /\ UNCHANGED <<sj_args, sj_query, sj_results, job_listings, sj_calls>>

(***************************************************************************)
(* analyze_job_fit and suggest_courses_for_skills: the reply of the        *)
(* text-generation service and its parse cascade                           *)
(***************************************************************************)
\* the opening and the closing fence of a fenced block: three backquotes (a character
\* a string of this module cannot hold), the opening one followed by json
FenceOpen == "<fence>json"
FenceEnd == "<fence>"
LBrace == "{"
RBrace == "}"
LBracket == "["
RBracket == "]"
Prose == "Here is my answer:"
JNum == "42"
JNull == "null"

\* the members of a JSON object, between its braces
FitFull ==
    "\"match_percentage\": 85, \"matching_qualifications\": [\"Python\"], \"missing_qualifications\": [\"Go\"], \"resume_improvement_tips\": [\"Add metrics\"], \"skills_to_develop\": [\"Go\", \"SQL\"]"
FitPartial == "\"match_percentage\": 85"
FitOver ==
    "\"match_percentage\": 150, \"matching_qualifications\": [], \"missing_qualifications\": [], \"resume_improvement_tips\": [], \"skills_to_develop\": null"
CourseGo ==
    "\"skill\": \"Go\", \"course_name\": \"Go Basics\", \"platform\": \"Coursera\", \"reason\": \"hands-on\""
CourseSql ==
    "\"skill\": \"SQL\", \"course_name\": \"SQL 101\", \"platform\": \"Udemy\", \"reason\": \"short\""
Unquoted == "match_percentage: high"

ObjectBodies == {FitFull, FitPartial, FitOver, CourseGo, CourseSql}

\* a decoded JSON value: an object (by its members), an array (by its items), a
\* number, null, or the JSONDecodeError
JObject(body) == [t |-> "obj", body |-> body, items |-> <<>>]
JArray(items) == [t |-> "arr", body |-> "", items |-> items]
JScalar(tok) == [t |-> "scalar", body |-> tok, items |-> <<>>]
JError == [t |-> "err", body |-> "", items |-> <<>>]

WithoutWs(doc) == SelectSeq(doc, LAMBDA t : ~IsWs(t))

\* the items of a JSON array between its brackets: objects and numbers, separated
\* by commas; <<JError>> when the tokens are no such list
RECURSIVE ParseItems(_)
ParseItems(d) ==
    LET first ==
            IF Len(d) >= 2 /\ d[1] = LBrace /\ d[2] = RBrace THEN <<JObject(""), 2>>
            ELSE IF Len(d) >= 3 /\ d[1] = LBrace /\ d[2] \in ObjectBodies /\ d[3] = RBrace
                 THEN <<JObject(d[2]), 3>>
            ELSE IF Len(d) >= 1 /\ d[1] = JNum THEN <<JScalar(JNum), 1>>
            ELSE <<JError, 0>>
        n == first[2]
    IN IF n = 0 THEN <<JError>>
       ELSE IF Len(d) = n THEN <<first[1]>>
       ELSE IF d[n + 1] = "," /\ Len(d) > n + 1
            THEN LET rest == ParseItems(SubSeq(d, n + 2, Len(d)))
                 IN IF rest = <<JError>> THEN rest ELSE <<first[1]>> \o rest
       ELSE <<JError>>

\* json.loads(text)
JsonLoads(text) ==
    LET d == WithoutWs(text)
    IN IF d = <<LBrace, RBrace>> THEN JObject("")
       ELSE IF Len(d) = 3 /\ d[1] = LBrace /\ d[2] \in ObjectBodies /\ d[3] = RBrace
            THEN JObject(d[2])
       ELSE IF d = <<JNum>> \/ d = <<JNull>> THEN JScalar(d[1])
       ELSE IF d = <<LBracket, RBracket>> THEN JArray(<<>>)
       ELSE IF Len(d) >= 3 /\ d[1] = LBracket /\ d[Len(d)] = RBracket
            THEN LET items == ParseItems(SubSeq(d, 2, Len(d) - 1))
                 IN IF items = <<JError>> THEN JError ELSE JArray(items)
       ELSE JError

NoMatch == [matched |-> FALSE, group |-> <<>>]
Match(g) == [matched |-> TRUE, group |-> g]

\* re.search of the fenced-block pattern (three backquotes, json, \s*(.*?)\s*, three
\* backquotes), re.DOTALL: group(1)
FencedBlock(content) ==
    LET opens == {i \in DOMAIN content :
                     /\ content[i] = FenceOpen
                     /\ \E k \in (i + 1)..Len(content) : content[k] \in {FenceOpen, FenceEnd}}
    IN IF opens = {} THEN NoMatch
       ELSE LET i == Min(opens)
                k == FirstIn(content, i + 1, {FenceOpen, FenceEnd})
            IN Match(Strip(SubSeq(content, i + 1, k - 1)))

\* re.search(r'{[\s\S]*}', content, re.DOTALL): group(0)
BraceSpan(content) ==
    LET opens == {i \in DOMAIN content : content[i] = LBrace}
        closes == {k \in DOMAIN content : content[k] = RBrace}
    IN IF opens = {} \/ closes = {} \/ Max(closes) < Min(opens) THEN NoMatch
       ELSE Match(SubSeq(content, Min(opens), Max(closes)))

\* re.search(r'\[\s*{[\s\S]*}\s*\]', content, re.DOTALL): group(0)
ArraySpanAt(content, i) ==
    LET j == FirstNotIn(content, i + 1, {SP, NL})
        ends == {k \in (j + 1)..Len(content) :
                    /\ content[k] = RBracket
                    /\ \E c \in j..(k - 1) :
                          /\ content[c] = RBrace
                          /\ \A w \in (c + 1)..(k - 1) : IsWs(content[w])}
    IN IF content[i] = LBracket /\ j <= Len(content) /\ content[j] = LBrace /\ ends # {}
       THEN Match(SubSeq(content, i, Max(ends)))
       ELSE NoMatch
ArraySpan(content) ==
    LET starts == {i \in DOMAIN content : ArraySpanAt(content, i).matched}
    IN IF starts = {} THEN NoMatch ELSE ArraySpanAt(content, Min(starts))

\* the two literal dicts of analyze_job_fit
FitParseFallback ==
    "\"match_percentage\": 50, \"matching_qualifications\": [\"Unable to parse LLM response\"], \"missing_qualifications\": [\"Unable to parse LLM response\"], \"resume_improvement_tips\": [\"Unable to parse LLM response\"], \"skills_to_develop\": [\"Unable to parse LLM response\"]"
FitErrorFallback ==
    "\"match_percentage\": 0, \"matching_qualifications\": [\"Error in analysis\"], \"missing_qualifications\": [\"Error in analysis\"], \"resume_improvement_tips\": [\"Unable to complete analysis\"], \"skills_to_develop\": [\"Unable to complete analysis\"]"

FitCascadeMovesOn(content) ==
    IF FencedBlock(content).matched /\ JsonLoads(FencedBlock(content).group) # JError
    THEN JsonLoads(FencedBlock(content).group)
    ELSE IF BraceSpan(content).matched /\ JsonLoads(BraceSpan(content).group) # JError
    THEN JsonLoads(BraceSpan(content).group)
    ELSE JObject(FitParseFallback)

\* the parse cascade of analyze_job_fit: the value it returns, JError where
\* json.loads raises
FitCascade(content) ==
    IF FencedBlock(content).matched THEN JsonLoads(FencedBlock(content).group)
    ELSE IF BraceSpan(content).matched THEN JsonLoads(BraceSpan(content).group)
    ELSE JObject(FitParseFallback)

\* the literal records of suggest_courses_for_skills
CourseParseFallback(skill) ==
    "\"skill\": \"" \o skill \o "\", \"course_name\": \"Error retrieving course suggestions\", \"platform\": \"Multiple platforms available\", \"reason\": \"Please try again or search for courses related to these skills online\""
CourseErrorFallback ==
    "\"skill\": \"Error Analysis\", \"course_name\": \"Error retrieving course suggestions\", \"platform\": \"N/A\", \"reason\": \"An error occurred during analysis\""

\* the parse cascade of suggest_courses_for_skills
CoursesCascade(content, skills) ==
    IF FencedBlock(content).matched THEN JsonLoads(FencedBlock(content).group)
    ELSE IF ArraySpan(content).matched THEN JsonLoads(ArraySpan(content).group)
    ELSE JArray(<<JObject(CourseParseFallback(
                     IF skills # <<>> THEN skills[1] ELSE "Professional Skills"))>>)

MaxDocLen == 3

DocAlphabet == {LBrace, RBrace, LBracket, RBracket, FitFull, CourseGo, JNum, Unquoted}

ObjectText(body) == <<LBrace, body, RBrace>>
ArrayText(bodies) ==
    <<LBracket>>
    \o Flatten([i \in DOMAIN bodies |->
                   (IF i > 1 THEN <<",", SP>> ELSE <<>>) \o ObjectText(bodies[i])])
    \o <<RBracket>>

\* the JSON documents, well-formed or not, a reply can carry
Docs ==
    SeqsUpTo(DocAlphabet, MaxDocLen)
    \cup {ObjectText(FitPartial), ObjectText(FitOver), <<JNull>>,
          ArrayText(<<CourseGo, CourseSql>>),
          ArrayText(<<CourseGo, CourseSql, CourseGo>>),
          <<LBracket, NL>> \o ObjectText(CourseGo) \o <<NL, RBracket>>,
          ObjectText(FitFull) \o <<SP>> \o ObjectText(FitPartial)}

Fenced(doc) == <<FenceOpen, NL>> \o doc \o <<NL, FenceEnd>>

\* response.content
Replies ==
    UNION {{doc, <<Prose, NL>> \o doc, Fenced(doc), <<Prose, NL>> \o Fenced(doc) \o <<NL, Prose>>,
            <<FenceOpen, NL>> \o doc} : doc \in Docs}
    \cup {Fenced(ObjectText(FitPartial)) \o <<NL>> \o Fenced(ObjectText(FitFull))}

SkillLists == {<<>>, <<"Go">>, <<"Go", "SQL">>}

NoValue == [kind |-> "none", val |-> JError]
ReturnedValue(v) == [kind |-> "value", val |-> v]
RaisedError == [kind |-> "raised", val |-> JError]

FitOnExceptionPropagates == RaisedError

\* except Exception as e: return {...}   (analyze_job_fit)
FitOnException == ReturnedValue(JObject(FitErrorFallback))

CoursesOnExceptionPropagates == RaisedError

\* except Exception as e: return [{...}]   (suggest_courses_for_skills)
CoursesOnException == ReturnedValue(JArray(<<JObject(CourseErrorFallback)>>))

FitIdle ==
    /\ fit_pc = "idle"
    /\ fit_job = "none"
    /\ fit_content = <<>>
    /\ fit_out = NoValue

FitInit ==
    /\ fit_pc = "start"
    /\ fit_job \in {"record", "none"}
    /\ fit_content = <<>>
    /\ fit_out = NoValue

CoursesIdle ==
    /\ sc_pc = "idle"
    /\ sc_skills = <<>>
    /\ sc_content = <<>>
    /\ sc_out = NoValue

CoursesInit ==
    /\ sc_pc = "start"
    /\ sc_skills \in SkillLists
    /\ sc_content = <<>>
    /\ sc_out = NoValue

\* job_details.get(...), the prompt, response = llm.invoke([HumanMessage(content=prompt)])
FitInvoke ==
    /\ fit_pc = "start"
    /\ \/ /\ fit_pc' = "except"
          /\ UNCHANGED fit_content
       \/ /\ fit_job = "record"
          /\ \E content \in Replies : fit_content' = content
          /\ fit_pc' = "parse"
    /\ UNCHANGED <<fit_job, fit_out>>

\* the parse cascade; return analysis_json
FitParse ==
    /\ fit_pc = "parse"
    /\ IF FitCascade(fit_content) = JError
       THEN /\ fit_pc' = "except"
            /\ UNCHANGED fit_out
       ELSE /\ fit_out' = ReturnedValue(FitCascade(fit_content))
            /\ fit_pc' = "done"
    /\ UNCHANGED <<fit_job, fit_content>>

FitExcept ==
    /\ fit_pc = "except"
    /\ fit_out' = FitOnException
    /\ fit_pc' = "done"
    /\ UNCHANGED <<fit_job, fit_content>>

\* skills_text, the prompt, response = llm.invoke([HumanMessage(content=prompt)])
CoursesInvoke ==
    /\ sc_pc = "start"
    /\ \/ /\ sc_pc' = "except"
          /\ UNCHANGED sc_content
       \/ /\ \E content \in Replies : sc_content' = content
          /\ sc_pc' = "parse"
    /\ UNCHANGED <<sc_skills, sc_out>>

\* the parse cascade; return suggestions
CoursesParse ==
    /\ sc_pc = "parse"
    /\ IF CoursesCascade(sc_content, sc_skills) = JError
       THEN /\ sc_pc' = "except"
            /\ UNCHANGED sc_out
       ELSE /\ sc_out' = ReturnedValue(CoursesCascade(sc_content, sc_skills))
            /\ sc_pc' = "done"
    /\ UNCHANGED <<sc_skills, sc_content>>

CoursesExcept ==
    /\ sc_pc = "except"
    /\ sc_out' = CoursesOnException
    /\ sc_pc' = "done"
    /\ UNCHANGED <<sc_skills, sc_content>>

(***************************************************************************)
(* app.py: the session state of the job search tab                         *)
(***************************************************************************)

MaxAppResults == 2

\* the listings a search can return, by their url
AppUrls == {"https://a.example/job", "https://b.example/job"}

Resumes == {"resume one", "resume two"}

\* {} and []
EmptyDict == [kind |-> "empty", url |-> ""]
EmptyList == [kind |-> "empty", url |-> ""]

\* an entry of search_results; ViewDetails adds the key full_details to it
Stub(u) == [url |-> u, full_details |-> EmptyDict]

SearchResults ==
    UNION {[1..n -> {Stub(u) : u \in AppUrls}] : n \in 0..MaxAppResults}

\* get_job_details(job['url']): the JobRecord of that listing
JobDetailsOf(u) == [kind |-> "details", url |-> u]

\* analyze_job_fit(details, resume, llm): a mapping with skills_to_develop, a
\* mapping without it, or the empty mapping; the job it was computed from is
\* kept with the value
FitAnalyses(details) ==
    {[kind |-> "skills", url |-> details.url],
     [kind |-> "noskills", url |-> details.url],
     EmptyDict}

\* 'skills_to_develop' in fit_analysis and fit_analysis['skills_to_develop']
HasSkills(fit_analysis) == fit_analysis.kind = "skills"

\* suggest_courses_for_skills(fit_analysis['skills_to_develop'], llm)
SkillsCourses(fit_analysis) == {[kind |-> "courses", url |-> fit_analysis.url], EmptyList}

NoSelection == 0

\* the session defaults
AppInit ==
    /\ job_search_results = <<>>
    /\ selected_job = NoSelection
    /\ job_details = EmptyDict
    /\ job_fit_analysis = EmptyDict
    /\ job_skills_courses = EmptyList
    /\ resume_text = ""

\* if st.button("Search Jobs") and job_query: store the results, reset the selection
SearchJobsClicked ==
    /\ \E search_results \in SearchResults : job_search_results' = search_results
    /\ selected_job' = NoSelection
    /\ job_details' = EmptyDict
    /\ job_fit_analysis' = EmptyDict
    /\ job_skills_courses' = EmptyList
    /\ UNCHANGED resume_text

ViewDetailsKeepsFetched ==
    \E idx \in DOMAIN job_search_results :
        LET job == job_search_results[idx]
            details == IF job_details = EmptyDict THEN JobDetailsOf(job.url) ELSE job_details
        IN /\ selected_job' = idx
           /\ job_details' = details
           /\ job_search_results' =
                  [job_search_results EXCEPT ![idx].full_details = details]
           /\ UNCHANGED <<job_fit_analysis, job_skills_courses, resume_text>>

\* if st.button("View Details", key=f"view_{idx}"), one per entry of the results
ViewDetailsClicked ==
    \E idx \in DOMAIN job_search_results :
        LET job == job_search_results[idx]
            details == JobDetailsOf(job.url)
        IN /\ selected_job' = idx
           /\ job_details' = details
           /\ job_search_results' =
                  [job_search_results EXCEPT ![idx].full_details = details]
           /\ UNCHANGED <<job_fit_analysis, job_skills_courses, resume_text>>

\* if st.button("Analyze My Fit") and resume_for_analysis, shown while a job is
\* selected
AnalyzeMyFitClicked ==
    /\ selected_job # NoSelection
    /\ \E resume_for_analysis \in Resumes :
          /\ resume_text' = resume_for_analysis
          /\ \E fit_analysis \in FitAnalyses(job_details) :
                /\ job_fit_analysis' = fit_analysis
                /\ IF HasSkills(fit_analysis)
                   THEN \E skills_courses \in SkillsCourses(fit_analysis) :
                            job_skills_courses' = skills_courses
                   ELSE UNCHANGED job_skills_courses
    /\ UNCHANGED <<job_search_results, selected_job, job_details>>

(***************************************************************************)
(* extract_job_description on its own                                      *)
(***************************************************************************)

DescIdle ==
    /\ ejd_pc = "idle"
    /\ ejd_soup = <<>>
    /\ ejd_text = <<>>
    /\ description_section = <<>>

DescInit ==
    /\ ejd_pc = "start"
    /\ ejd_soup \in Selections
    /\ ejd_text \in Pages
    /\ description_section = <<>>

\* the selector loop
DescSelect ==
    /\ ejd_pc = "start"
    /\ description_section' = SelectedText(ejd_soup)
    /\ ejd_pc' = "selected"
    /\ UNCHANGED <<ejd_soup, ejd_text>>

\* if not description_section: the header patterns; if not description_section:
\* text_content[:500] + "..."; return description_section
DescReturn ==
    /\ ejd_pc = "selected"
    /\ description_section' = extract_job_description(ejd_soup, ejd_text)
    /\ ejd_pc' = "done"
    /\ UNCHANGED <<ejd_soup, ejd_text>>

(***************************************************************************)
(* extract_application_link on its own                                     *)
(***************************************************************************)

\* the href of the element the i-th apply selector finds
ApplyHref(i) == ApplyUrl \o <<SLASH, apply_selectors[i]>>

\* soup.select_one(selector) for the six apply selectors: no element, an element
\* without href, a raising selector, or an element with a href
LinkSoups ==
    {[i \in DOMAIN apply_selectors |->
         IF k[i] = "href" THEN Href(ApplyHref(i)) ELSE [kind |-> k[i], href |-> <<>>]] :
     k \in [DOMAIN apply_selectors -> {"none", "nohref", "raise", "href"}]}

LinkUrls == {UrlListing, UrlEmpty}

LinkIdle ==
    /\ eal_pc = "idle"
    /\ eal_soup = <<>>
    /\ eal_url = <<>>
    /\ eal_i = 0
    /\ eal_out = <<>>

LinkInit ==
    /\ eal_pc = "loop"
    /\ eal_soup \in LinkSoups
    /\ eal_url \in LinkUrls
    /\ eal_i = 0
    /\ eal_out = <<>>

LinkTryStopsOnRaise ==
    /\ eal_pc = "loop"
    /\ eal_i < Len(apply_selectors)
    /\ eal_i' = eal_i + 1
    /\ LET apply_button == eal_soup[eal_i + 1]
       IN IF apply_button.kind = "href"
          THEN eal_out' = apply_button.href /\ eal_pc' = "done"
          ELSE IF apply_button.kind = "raise"
               THEN eal_out' = eal_url /\ eal_pc' = "done"
          ELSE UNCHANGED <<eal_out, eal_pc>>
    /\ UNCHANGED <<eal_soup, eal_url>>

\* one turn of for selector in apply_selectors: return the href, or go on (also
\* when select_one raised)
LinkTry ==
    /\ eal_pc = "loop"
    /\ eal_i < Len(apply_selectors)
    /\ eal_i' = eal_i + 1
    /\ LET apply_button == eal_soup[eal_i + 1]
       IN IF apply_button.kind = "href"
          THEN eal_out' = apply_button.href /\ eal_pc' = "done"
          ELSE UNCHANGED <<eal_out, eal_pc>>
    /\ UNCHANGED <<eal_soup, eal_url>>

\* return default_url
LinkDefault ==
    /\ eal_pc = "loop"
    /\ eal_i = Len(apply_selectors)
    /\ eal_out' = eal_url
    /\ eal_pc' = "done"
    /\ UNCHANGED <<eal_soup, eal_url, eal_i>>

(***************************************************************************)
(* extract_salary on its own                                               *)
(***************************************************************************)

MaxSalaryWords == 4

SalaryWords == {DollarAmt, DollarHigh, Amount, CodeUsd, DASH, PerYear, Word}

\* the words with one blank between them
RECURSIVE Spaced(_)
Spaced(ws) ==
    IF Len(ws) <= 1 THEN ws ELSE <<Head(ws), SP>> \o Spaced(Tail(ws))

SalaryTexts == {Spaced(ws) : ws \in SeqsUpTo(SalaryWords, MaxSalaryWords)}

SalaryIdle ==
    /\ sal_pc = "idle"
    /\ sal_text = <<>>
    /\ sal_out = <<>>

SalaryInit ==
    /\ sal_pc = "start"
    /\ sal_text \in SalaryTexts
    /\ sal_out = <<>>

\* the pattern loop and the sentinel
SalaryReturn ==
    /\ sal_pc = "start"
    /\ sal_out' = extract_salary(sal_text)
    /\ sal_pc' = "done"
    /\ UNCHANGED sal_text

Init == FetchInit /\ SearchIdle /\ FitIdle /\ CoursesIdle /\ AppInit /\ DescIdle /\ LinkIdle /\ SalaryIdle

Next ==
    \/ FirstGet /\ UNCHANGED <<searchVars, fitVars, coursesVars, appVars, descVars, linkVars, salaryVars>>
    \/ RotateGet /\ UNCHANGED <<searchVars, fitVars, coursesVars, appVars, descVars, linkVars, salaryVars>>
    \/ CheckStatus /\ UNCHANGED <<searchVars, fitVars, coursesVars, appVars, descVars, linkVars, salaryVars>>
    \/ Extract /\ UNCHANGED <<searchVars, fitVars, coursesVars, appVars, descVars, linkVars, salaryVars>>
    \/ Recover /\ UNCHANGED <<searchVars, fitVars, coursesVars, appVars, descVars, linkVars, salaryVars>>
    \/ AltFetch /\ UNCHANGED <<searchVars, fitVars, coursesVars, appVars, descVars, linkVars, salaryVars>>
    \/ Fill /\ UNCHANGED <<searchVars, fitVars, coursesVars, appVars, descVars, linkVars, salaryVars>>
    \/ Except /\ UNCHANGED <<searchVars, fitVars, coursesVars, appVars, descVars, linkVars, salaryVars>>

Spec == Init /\ [][Next]_vars

\* every HTTP call and every search call returns or raises: a call that never
\* returns keeps executing statements.  pc # "done" is the enabling condition of
\* Next (C26_BoundedAndTerminates includes the two guards that are not on pc).
SpecLive == Spec /\ (<>[](pc # "done") => []<><<Next>>_vars)

InitSearch == FetchIdle /\ SearchInit /\ FitIdle /\ CoursesIdle /\ AppInit /\ DescIdle /\ LinkIdle /\ SalaryIdle

NextSearch ==
    \/ SjQuery /\ UNCHANGED <<fetchVars, fitVars, coursesVars, appVars, descVars, linkVars, salaryVars>>
    \/ SjSearch /\ UNCHANGED <<fetchVars, fitVars, coursesVars, appVars, descVars, linkVars, salaryVars>>
    \/ SjListing /\ UNCHANGED <<fetchVars, fitVars, coursesVars, appVars, descVars, linkVars, salaryVars>>
    \/ SjReturn /\ UNCHANGED <<fetchVars, fitVars, coursesVars, appVars, descVars, linkVars, salaryVars>>
    \/ SjExcept /\ UNCHANGED <<fetchVars, fitVars, coursesVars, appVars, descVars, linkVars, salaryVars>>

SpecSearch == InitSearch /\ [][NextSearch]_vars

InitFit == FetchIdle /\ SearchIdle /\ FitInit /\ CoursesIdle /\ AppInit /\ DescIdle /\ LinkIdle /\ SalaryIdle

NextFit ==
    \/ FitInvoke /\ UNCHANGED <<fetchVars, searchVars, coursesVars, appVars, descVars, linkVars, salaryVars>>
    \/ FitParse /\ UNCHANGED <<fetchVars, searchVars, coursesVars, appVars, descVars, linkVars, salaryVars>>
    \/ FitExcept /\ UNCHANGED <<fetchVars, searchVars, coursesVars, appVars, descVars, linkVars, salaryVars>>

SpecFit == InitFit /\ [][NextFit]_vars

InitCourses == FetchIdle /\ SearchIdle /\ FitIdle /\ CoursesInit /\ AppInit /\ DescIdle /\ LinkIdle /\ SalaryIdle

NextCourses ==
    \/ CoursesInvoke /\ UNCHANGED <<fetchVars, searchVars, fitVars, appVars, descVars, linkVars, salaryVars>>
    \/ CoursesParse /\ UNCHANGED <<fetchVars, searchVars, fitVars, appVars, descVars, linkVars, salaryVars>>
    \/ CoursesExcept /\ UNCHANGED <<fetchVars, searchVars, fitVars, appVars, descVars, linkVars, salaryVars>>

SpecCourses == InitCourses /\ [][NextCourses]_vars

InitApp == FetchIdle /\ SearchIdle /\ FitIdle /\ CoursesIdle /\ AppInit /\ DescIdle /\ LinkIdle /\ SalaryIdle

NextApp ==
    \/ SearchJobsClicked /\ UNCHANGED <<fetchVars, searchVars, fitVars, coursesVars, descVars, linkVars, salaryVars>>
    \/ ViewDetailsClicked /\ UNCHANGED <<fetchVars, searchVars, fitVars, coursesVars, descVars, linkVars, salaryVars>>
    \/ AnalyzeMyFitClicked /\ UNCHANGED <<fetchVars, searchVars, fitVars, coursesVars, descVars, linkVars, salaryVars>>

SpecApp == InitApp /\ [][NextApp]_vars

InitDesc == FetchIdle /\ SearchIdle /\ FitIdle /\ CoursesIdle /\ AppInit /\ DescInit /\ LinkIdle /\ SalaryIdle

NextDesc ==
    \/ DescSelect /\ UNCHANGED <<fetchVars, searchVars, fitVars, coursesVars, appVars, linkVars, salaryVars>>
    \/ DescReturn /\ UNCHANGED <<fetchVars, searchVars, fitVars, coursesVars, appVars, linkVars, salaryVars>>

SpecDesc == InitDesc /\ [][NextDesc]_vars

InitLink ==
    /\ FetchIdle /\ SearchIdle /\ FitIdle /\ CoursesIdle /\ AppInit /\ DescIdle /\ LinkInit
    /\ SalaryIdle

NextLink ==
    \/ LinkTry /\ UNCHANGED <<fetchVars, searchVars, fitVars, coursesVars, appVars, descVars, salaryVars>>
    \/ LinkDefault /\ UNCHANGED <<fetchVars, searchVars, fitVars, coursesVars, appVars, descVars, salaryVars>>

SpecLink == InitLink /\ [][NextLink]_vars

InitSalary ==
    /\ FetchIdle /\ SearchIdle /\ FitIdle /\ CoursesIdle /\ AppInit /\ DescIdle /\ LinkIdle
    /\ SalaryInit

NextSalary ==
    SalaryReturn /\ UNCHANGED <<fetchVars, searchVars, fitVars, coursesVars, appVars,
                                descVars, linkVars>>

SpecSalary == InitSalary /\ [][NextSalary]_vars

(***************************************************************************)
(* Properties of get_job_details                                           *)
(***************************************************************************)
Is2xx(st) == 200 <= st /\ st < 300

\* the call ended in the except clause after the whole rotation failed
RotationFailed == pc = "done" /\ gets = 4 /\ status >= 400

NoDuplicates(xs) == \A i, j \in DOMAIN xs : i # j => xs[i] # xs[j]

\* C1: get_job_details is total: it never hands an exception to its caller, every
\* call that has ended has returned a JobRecord, and nothing is returned before.
C1_Total ==
    /\ result.kind # "raised"
    /\ pc = "done" => result.kind = "record"
    /\ pc # "done" => result.kind = "none"

\* C1 witness: every identity got a 4xx, the call still returned a record
C1_Witness == RotationFailed /\ result.kind = "record"

\* C2: search_jobs never throws: whatever the provider does (raises, returns nothing,
\* returns entries of any shape) a call that has ended has returned a list, the empty
\* list when the provider raised or returned nothing, and never an exception or null.
C2_SearchNeverThrows ==
    /\ sj_out.kind \in {"none", "list"}
    /\ sj_pc = "done" => sj_out.kind = "list"
    /\ sj_pc # "done" => sj_out.kind = "none"
    /\ (sj_pc = "done" /\ \E c \in DOMAIN sj_calls : sj_calls[c].raised) => sj_out.list = <<>>
    /\ (sj_pc = "done" /\ sj_results = <<>>) => sj_out.list = <<>>

\* C2 witness: the provider raised, or an entry that is not a mapping turned up
\* after a well-formed one, and the call returned a list
C2_Witness ==
    /\ sj_pc = "done"
    /\ sj_out.kind = "list"
    /\ \/ Len(sj_calls) = 1 /\ sj_calls[1].raised
       \/ Len(sj_results) = 2 /\ sj_results[2] = NotMapping

C13_OneCall ==
    /\ Len(sj_calls) <= 1
    /\ sj_pc \in {"loop", "except", "done"} =>
          /\ Len(sj_calls) = 1
          /\ sj_calls[1].query
               = sj_args.query \o <<" jobs">>
                   \o (IF sj_args.location = <<>> THEN <<>>
                       ELSE <<" in ">> \o sj_args.location)

\* C13 witness: the provider raised on a query with a location, and the call ended
C13_Witness ==
    /\ sj_pc = "done"
    /\ Len(sj_calls) = 1
    /\ sj_calls[1].raised
    /\ sj_args.location # <<>>

\* C3: after a successful fetch the returned JobRecord has all seven fields
\* populated: description, salary, job_type, application_link and full_text are
\* non-empty strings and requirements is a non-empty list.
C3_AllPopulated ==
    (pc = "done" /\ text_content # <<>>) =>
        /\ StrLen(result.rec.description) > 0
        /\ StrLen(result.rec.salary) > 0
        /\ StrLen(result.rec.job_type) > 0
        /\ StrLen(result.rec.application_link) > 0
        /\ StrLen(result.rec.full_text) > 0
        /\ Len(result.rec.requirements) > 0

\* C4 (as claimed): after the rotation failed the record carries the sentinels
\* "Salary not specified" and "Not specified".
C4_Sentinels ==
    RotationFailed =>
        /\ result.rec.salary = <<"Salary not specified">>
        /\ result.rec.job_type = <<"Not specified">>

\* C4 (amended): after the rotation failed the record is the placeholder: description
\* and first requirement name the title-cased last path segment of the URL, salary,
\* job_type and the single benefits entry are the fixed referral texts,
\* application_link is the URL and full_text quotes the URL.
C4_Placeholder ==
    RotationFailed =>
        /\ result.kind = "record"
        /\ result.rec.application_link = url
        /\ result.rec.salary
             = <<"Please refer to the original job listing for salary information">>
        /\ result.rec.job_type = <<"Full-time (refer to original listing for confirmation)">>
        /\ result.rec.benefits
             = << <<"Visit the original job listing for complete benefits information">> >>
        /\ Len(result.rec.requirements) = 4
        /\ url = UrlListing =>
             /\ SubSeq(result.rec.description, 2, 4) = <<"Data", " ", "Engineer">>
             /\ SubSeq(result.rec.requirements[1], 2, 4) = <<"Data", " ", "Engineer">>
             /\ SubSeq(result.rec.full_text, 2, 1 + Len(url)) = url

C4_Witness == RotationFailed /\ url = UrlListing

\* C5 (as claimed): at most 4 GETs go to the listing URL, an alternate identity is
\* tried only after a non-2xx response, and no GET follows a 2xx response.
C5_Original ==
    /\ [](gets <= 4)
    /\ [][gets' = gets + 1 /\ gets >= 1 => ~Is2xx(status)]_vars
    /\ [][Is2xx(status) => gets' = gets]_vars

\* C5 (amended): at most 4 GETs go to the listing URL, one identity after the other;
\* an alternate identity is tried only after a response whose status is not 200, and
\* no GET follows a response with status 200.
C5_Rotation ==
    /\ [](gets <= 4)
    /\ [][gets' = gets \/ gets' = gets + 1]_vars
    /\ [][gets' = gets + 1 /\ gets >= 1 => status # 200 /\ status # 0]_vars
    /\ [][status = 200 => gets' = gets]_vars

\* C5 witness: the third identity got the 200 and the rotation stopped there
C5_Witness == pc = "check" /\ gets = 3 /\ status = 200

\* C6: when the rotation ends without a 2xx response the call returns the
\* placeholder, and extraction never runs on the body of a non-2xx response.
C6_NoExtractionOnFailure ==
    /\ pc = "extract" => Is2xx(status)
    /\ (pc = "done" /\ status # 0 /\ ~Is2xx(status)) => text_content = <<>>

\* C7 (as claimed): the secondary search is issued only when description and
\* requirements are both empty after the primary extraction.
C7_Original ==
    [][searches' = searches + 1 => description = <<>> /\ requirements = <<>>]_vars

\* C7 (amended): the secondary search is issued only when the description or the
\* requirements list is empty after the primary extraction; with both non-empty
\* there is no search.
C7_RecoveryOnlyIfMissing ==
    /\ [][searches' = searches + 1 => description = <<>> \/ requirements = <<>>]_vars
    /\ [](searches <= 1)

\* C7 witness: a search went out for a page with a description and no requirements
C7_Witness == pc = "altloop" /\ searches = 1 /\ description # <<>> /\ requirements = <<>>

C11_FullTextBounded == pc = "done" => StrLen(result.rec.full_text) <= 5000

\* C9: every returned JobRecord has at most 10 requirements and at most 8 benefits.
C9_Caps ==
    pc = "done" => Len(result.rec.requirements) <= 10 /\ Len(result.rec.benefits) <= 8

\* C9 witness: a page with more items than the caps, cut to 10 and 8
C9_Witness ==
    /\ pc = "done"
    /\ Len(result.rec.requirements) = 10
    /\ Len(result.rec.benefits) = 8
    /\ Len(RawRequirements(text_content)) > 10

\* C10: no returned JobRecord holds the same entry twice in requirements or in
\* benefits.
C10_NoDuplicates ==
    pc = "done" =>
        /\ NoDuplicates(result.rec.requirements)
        /\ NoDuplicates(result.rec.benefits)

\* the fenced block of a reply holds valid JSON
FencedValid(content) ==
    FencedBlock(content).matched /\ JsonLoads(FencedBlock(content).group) # JError

\* C14: analyze_job_fit never raises; a reply with a fenced JSON block of valid
\* JSON returns exactly the decoded block; a reply with no fenced block and no
\* {...} span returns the fallback with match_percentage 50 and one placeholder
\* string per list; an exception (of the text-generation call) returns the
\* fallback with match_percentage 0.
C14_ParseCascade ==
    /\ [](fit_out.kind # "raised")
    /\ [][fit_pc = "parse" /\ FencedValid(fit_content)
            => /\ fit_pc' = "done"
               /\ fit_out' = ReturnedValue(JsonLoads(FencedBlock(fit_content).group))]_vars
    /\ [][fit_pc = "parse" /\ ~FencedBlock(fit_content).matched
                           /\ ~BraceSpan(fit_content).matched
            => /\ fit_pc' = "done"
               /\ fit_out' = ReturnedValue(JObject(FitParseFallback))]_vars
    /\ [][fit_pc = "except"
            => /\ fit_pc' = "done"
               /\ fit_out' = ReturnedValue(JObject(FitErrorFallback))]_vars

\* C14 witness: a reply with prose around a fenced block of valid JSON, decoded to
\* exactly the object of the block
C14_Witness ==
    /\ fit_pc = "done"
    /\ fit_content = <<Prose, NL>> \o Fenced(ObjectText(FitFull)) \o <<NL, Prose>>
    /\ fit_out = ReturnedValue(JObject(FitFull))

\* the object members that make a FitAnalysis: the five keys, match_percentage an
\* integer in 0..100, the four other fields lists
WellFormedFit(v) ==
    /\ v.t = "obj"
    /\ v.body \in {FitFull, FitParseFallback, FitErrorFallback}

\* C15: for every reply content, the value analyze_job_fit returns is a
\* well-formed FitAnalysis: a mapping with the five keys, match_percentage an
\* integer in 0..100 and the four other fields lists.
C15_WellFormed ==
    fit_pc = "done" => fit_out.kind = "value" /\ WellFormedFit(fit_out.val)

\* a course record {skill, course_name, platform, reason}
IsCourseRecord(v) ==
    /\ v.t = "obj"
    /\ v.body \in {CourseGo, CourseSql, CourseErrorFallback}
                  \cup {CourseParseFallback(s) : s \in {"Go", "SQL", "Professional Skills"}}

\* the reply of suggest_courses_for_skills was decoded by json.loads
CoursesParsed ==
    /\ sc_content # <<>>
    /\ FencedBlock(sc_content).matched \/ ArraySpan(sc_content).matched
    /\ CoursesCascade(sc_content, sc_skills) # JError

\* C16: suggest_courses_for_skills never raises and never returns an empty list;
\* when the reply is parsed the result is a list of course records with one
\* record per input skill, otherwise a list of exactly one placeholder record.
C16_OnePerSkill ==
    sc_pc = "done" =>
        /\ sc_out.kind = "value"
        /\ sc_out.val.t = "arr"
        /\ sc_out.val.items # <<>>
        /\ \A i \in DOMAIN sc_out.val.items : IsCourseRecord(sc_out.val.items[i])
        /\ IF CoursesParsed
           THEN Len(sc_out.val.items) = Len(sc_skills)
           ELSE Len(sc_out.val.items) = 1

\* C17: a non-empty stored fit analysis was computed from the JobRecord of the
\* currently selected job; selecting another job never leaves the analysis of a
\* previously selected job in place.
C17_FitOfSelectedJob ==
    job_fit_analysis # EmptyDict =>
        /\ selected_job # NoSelection
        /\ job_fit_analysis.url = job_search_results[selected_job].url

\* the " - "-delimited segment after the first separator, and the one after the last
SecondSegment(title) ==
    LET seps == {i \in DOMAIN title : title[i] = TitleSep}
        later == {i \in seps : i > Min(seps)}
    IN SubSeq(title, Min(seps) + 1, (IF later = {} THEN Len(title) + 1 ELSE Min(later)) - 1)

LastSegment(title) ==
    LET seps == {i \in DOMAIN title : title[i] = TitleSep}
    IN SubSeq(title, Max(seps) + 1, Len(title))

\* the title the i-th stub was built from
TitleOf(i) == Get(sj_results[i], "title").val

\* C18 as stated: the company of every stub is the last " - "-delimited segment
\* of the title when the title contains " - ", else "Unknown Company".
C18_LastSegment ==
    \A i \in DOMAIN job_listings :
        job_listings[i].company
          = IF Has(TitleOf(i), TitleSep) THEN Strip(LastSegment(TitleOf(i)))
            ELSE <<"Unknown Company">>

\* C18 amended: the company of every stub is the second " - "-delimited segment
\* of the title, stripped, when the title contains " - ", else "Unknown
\* Company"; for a title of three segments it is the middle one.
C18_SecondSegment ==
    \A i \in DOMAIN job_listings :
        job_listings[i].company
          = IF Has(TitleOf(i), TitleSep) THEN Strip(SecondSegment(TitleOf(i)))
            ELSE <<"Unknown Company">>

\* C18 witness: a stub built from a title of three segments carries the middle one
C18_Witness ==
    /\ sj_pc = "done"
    /\ \E i \in DOMAIN sj_out.list :
          /\ TitleOf(i) = <<JobTitle, TitleSep, "Acme", TitleSep, "Indeed">>
          /\ sj_out.list[i].company = <<"Acme">>

\* C19: the location of every stub is the value of the first stage that gives a
\* non-empty one, in the order title segment, first matching snippet pattern,
\* caller's default, "Not specified"; a snippet whose first matching pattern
\* gives nothing is not searched with the later patterns; the location is never
\* empty.
C19_FirstStageWins ==
    \A i \in DOMAIN job_listings :
        LET title == TitleOf(i)
            snippet == Get(sj_results[i], "body").val
            loc == job_listings[i].location
            fallback == IF sj_args.location # <<>> THEN sj_args.location
                        ELSE <<"Not specified">>
            labelled == \E k \in DOMAIN snippet : snippet[k] = SnLocation
        IN /\ loc # <<>>
           /\ TitleLocation(title) # <<>> => loc = TitleLocation(title)
           /\ TitleLocation(title) = <<>> /\ SnippetLocation(snippet) # <<>>
                => loc = SnippetLocation(snippet)
           /\ TitleLocation(title) = <<>> /\ SnippetLocation(snippet) = <<>>
                => loc = fallback
           /\ TitleLocation(title) = <<>> /\ labelled
                => loc \in {Strip(LocationGroup(snippet,
                                     Min({k \in DOMAIN snippet : snippet[k] = SnLocation}))),
                            fallback}

\* C19 witness: title and snippet both name a location and the stub has the title's
C19_Witness ==
    /\ sj_pc = "done"
    /\ \E i \in DOMAIN sj_out.list :
          /\ TitleLocation(TitleOf(i)) = <<SnCity>>
          /\ SnippetLocation(Get(sj_results[i], "body").val) \notin {<<>>, <<SnCity>>}
          /\ sj_out.list[i].location = <<SnCity>>

\* the text of the first selector, in selector order, whose matched block is not empty
FirstNonEmptyBlock(selected) ==
    LET hits == {i \in DOMAIN selected : selected[i].found /\ selected[i].text # <<>>}
    IN IF hits = {} THEN <<>> ELSE selected[Min(hits)].text

\* C20: extract_job_description returns the text of the first selector whose
\* matched block is non-empty (an empty matched block does not stop the search);
\* only if there is none the section of the first header pattern; only if that
\* gives nothing the first 500 characters of the text plus "..."; never a
\* concatenation of two of them.
C20_OneStrategy ==
    ejd_pc = "done" =>
        description_section
          = IF FirstNonEmptyBlock(ejd_soup) # <<>> THEN FirstNonEmptyBlock(ejd_soup)
            ELSE IF FirstSection(ejd_text, desc_patterns).sec # <<>>
                 THEN FirstSection(ejd_text, desc_patterns).sec
            ELSE Truncate(ejd_text, DescFallbackLen) \o <<Ellipsis>>

\* the text holds the standalone word "Remote" in some letter case
HasRemoteWord(text) == \E i \in DOMAIN text : text[i] \in {JtRemote, KwRemoteWork}

\* the text holds no job-type term and no job-type keyword
NoJobTypeWord(text) ==
    /\ \A i \in DOMAIN text : JobTermIn(text[i]) = ""
    /\ \A k \in DOMAIN job_type_keywords : ~WholeWord(text, job_type_keywords[k])

\* C21: for a text without a "Job Type:" / "Employment Type:" label, job_type is
\* exactly "Remote" when the text holds the standalone word "Remote" in any
\* letter case, and "Not specified" when it holds no job-type keyword.
C21_RemoteTitleCased ==
    (pc = "done" /\ text_content # <<>>
       /\ \A i \in DOMAIN text_content : text_content[i] \notin job_type_labels) =>
        /\ HasRemoteWord(text_content) => result.rec.job_type = <<"Remote">>
        /\ NoJobTypeWord(text_content) => result.rec.job_type = JobTypeSentinel

\* C22: extract_application_link returns the href of the first selector, in
\* selector order, whose element bears a non-empty href; with no such selector,
\* also when a selector raises, it returns the listing URL unchanged.
C22_FirstHrefOrUrl ==
    eal_pc = "done" =>
        LET hits == {i \in DOMAIN eal_soup : eal_soup[i].kind = "href"}
        IN eal_out = IF hits = {} THEN eal_url
                     ELSE eal_soup[CHOOSE i \in hits : \A j \in hits : i <= j].href

\* C22 witness: an element without href, then a raising selector, then the first href
C22_Witness ==
    /\ eal_pc = "done"
    /\ eal_soup[1].kind = "nohref"
    /\ eal_soup[4].kind = "raise"
    /\ eal_soup[5].kind = "href"
    /\ eal_soup[6].kind = "href"
    /\ eal_out = ApplyHref(5)

\* C23: extract_salary returns the match of the first of the three patterns, in
\* the order "$" amount, code then amount, amount then code, that matches
\* anywhere in the text, wherever the later patterns would match; the text
\* "$80,000 - $95,000 per year" comes back whole; a text without "$" amount and
\* without currency code gives "Salary not specified".
C23_PatternPriority ==
    sal_pc = "done" =>
        /\ DollarSalary(sal_text) # <<>> => sal_out = DollarSalary(sal_text)
        /\ DollarSalary(sal_text) = <<>> /\ CodeFirstSalary(sal_text) # <<>>
             => sal_out = CodeFirstSalary(sal_text)
        /\ DollarSalary(sal_text) = <<>> /\ CodeFirstSalary(sal_text) = <<>>
             /\ CodeLastSalary(sal_text) # <<>>
             => sal_out = CodeLastSalary(sal_text)
        /\ sal_text = <<DollarAmt, SP, DASH, SP, DollarHigh, SP, PerYear>>
             => sal_out = sal_text
        /\ (\A i \in DOMAIN sal_text : sal_text[i] \notin DollarAmounts \cup Codes)
             => sal_out = SalarySentinel

\* C23 witness: "70,000 USD 70,000", where the third pattern matches further left
\* than the second, returns the match of the second
C23_Witness ==
    /\ sal_pc = "done"
    /\ sal_text = <<Amount, SP, CodeUsd, SP, Amount>>
    /\ sal_out = <<CodeUsd, SP, Amount>>

\* the location of a stub whose title and snippet name none
DefaultLocation == IF sj_args.location # <<>> THEN sj_args.location ELSE <<"Not specified">>

\* C24: an entry that lacks title, href or body is taken with the empty string
\* for that key and still gives a stub: title "" and company "Unknown Company",
\* url "" and source "Unknown Source", snippet "" and the caller's default
\* location or "Not specified"; a response whose entries only lack keys is
\* returned with one stub per entry.
C24_MissingKeys ==
    /\ \A i \in DOMAIN job_listings :
          LET entry == sj_results[i]
              stub == job_listings[i]
          IN /\ entry.title = Missing =>
                   stub.title = <<>> /\ stub.company = <<"Unknown Company">>
             /\ entry.href = Missing =>
                   stub.url = Str(<<>>) /\ stub.source = <<"Unknown Source">>
             /\ entry.body = Missing => stub.snippet = <<>>
             /\ entry.body = Missing /\ (entry.title = Missing \/ ~Has(entry.title.val, InSep))
                   => stub.location = DefaultLocation
    /\ (sj_pc = "done" /\ Len(sj_calls) = 1 /\ ~sj_calls[1].raised
          /\ \A i \in DOMAIN sj_results :
                /\ sj_results[i].mapping
                /\ \A key \in {"title", "href", "body"} : sj_results[i][key] # None)
         => Len(sj_out.list) = Len(sj_results)

\* C24 witness: an entry without any of the three keys, then a well-formed one, and
\* both stubs came back
C24_Witness ==
    /\ sj_pc = "done"
    /\ Len(sj_results) = 2
    /\ sj_results[1] = Entry(Missing, Missing, Missing)
    /\ sj_results[2] = Entry(GoodTitle, GoodHref, Str(<<>>))
    /\ Len(sj_out.list) = 2
    /\ sj_out.list[1].company = <<"Unknown Company">>
    /\ sj_out.list[2].company = <<"Acme">>

\* C28: the result of search_jobs is the empty list or holds one stub per provider
\* result; one entry whose processing raises makes the whole result the empty
\* list, and the stubs built before it are dropped.
C28_AllOrNothing ==
    sj_pc = "done" =>
        /\ sj_out.list = <<>> \/ Len(sj_out.list) = Len(sj_results)
        /\ (\E i \in DOMAIN sj_results : ListingRaises(sj_results[i])) => sj_out.list = <<>>

\* C28 witness: a stub was built for the first entry, the second is not a mapping,
\* and the empty list came back
C28_Witness ==
    /\ sj_pc = "done"
    /\ Len(sj_results) = 2
    /\ ~ListingRaises(sj_results[1])
    /\ sj_results[2] = NotMapping
    /\ Len(job_listings) = 1
    /\ sj_out.list = <<>>

\* C25: a GET to the listing URL that raises, with the primary or with an
\* alternate identity, ends the rotation at once: no further identity is tried,
\* neither extraction nor secondary recovery runs, and the placeholder JobRecord
\* is returned.
C25_RaiseEndsRotation ==
    /\ [][(pc = "start" \/ pc = "rotate") /\ pc' = "except"
            => text_content' = <<>> /\ searches' = 0 /\ alt_i' = 0]_vars
    /\ [][pc = "except"
            => /\ pc' = "done"
               /\ result' = Returned(Placeholder(url))
               /\ UNCHANGED <<gets, text_content, description, requirements,
                              searches, alt_i>>]_vars
    /\ []((pc = "done" /\ gets < NumAgents /\ status # 200)
            => /\ result = Returned(Placeholder(url))
               /\ text_content = <<>>
               /\ searches = 0)

\* C25 witness: the first identity got a 404, the GET of the second raised, and the
\* placeholder came back after two GETs
C25_Witness ==
    /\ pc = "done"
    /\ gets = 2
    /\ status = 404
    /\ text_content = <<>>
    /\ searches = 0
    /\ result = Returned(Placeholder(url))

FitJsonText(content) ==
    IF FencedBlock(content).matched THEN FencedBlock(content)
    ELSE BraceSpan(content)

\* C27: in analyze_job_fit, a reply whose fenced block (or, without a fence, whose
\* brace span) is not valid JSON ends in the except clause and returns the fallback
\* with match_percentage 0, never the one with match_percentage 50: the cascade
\* does not go on to the next strategy after a decoding error.
C27_DecodeErrorGivesZero ==
    /\ [][(/\ fit_pc = "parse"
           /\ FitJsonText(fit_content).matched
           /\ JsonLoads(FitJsonText(fit_content).group) = JError)
            => fit_pc' = "except" /\ UNCHANGED fit_out]_vars
    /\ []((/\ fit_pc = "done"
           /\ FitJsonText(fit_content).matched
           /\ JsonLoads(FitJsonText(fit_content).group) = JError)
            => fit_out = ReturnedValue(JObject(FitErrorFallback)))

\* C27 witness: the text-generation call returned a reply, its fenced block is not
\* valid JSON, and the result is the 0-fallback
C27_Witness ==
    /\ fit_pc = "done"
    /\ fit_job = "record"
    /\ FencedBlock(fit_content).matched
    /\ JsonLoads(FencedBlock(fit_content).group) = JError
    /\ fit_out = ReturnedValue(JObject(FitErrorFallback))

\* C29: the stored course suggestions are either empty or were generated from the
\* skills_to_develop of the currently stored fit analysis; a re-analysis without
\* skills_to_develop does not leave the suggestions of an earlier analysis in
\* place.  (Search Jobs empties both and View Details changes neither, so the
\* states after an Analyze My Fit action are the ones this constrains.)
C29_CoursesOfStoredAnalysis ==
    job_skills_courses # EmptyList =>
        /\ HasSkills(job_fit_analysis)
        /\ job_skills_courses \in SkillsCourses(job_fit_analysis)

\* C30: whenever selected_job is set, the stored job_details is the JobRecord that
\* get_job_details returned for the url of the selected job; whenever it is unset
\* (initially and after every Search) job_details, job_fit_analysis and
\* job_skills_courses are empty.
C30_DetailsOfSelection ==
    /\ selected_job # NoSelection =>
            /\ selected_job \in DOMAIN job_search_results
            /\ job_details = JobDetailsOf(job_search_results[selected_job].url)
    /\ selected_job = NoSelection =>
            /\ job_details = EmptyDict
            /\ job_fit_analysis = EmptyDict
            /\ job_skills_courses = EmptyList

\* C30 witness: two listings with different urls, the first was viewed, then the
\* second: the stored details are those of the second
C30_Witness ==
    /\ Len(job_search_results) = 2
    /\ job_search_results[1].url # job_search_results[2].url
    /\ job_search_results[1].full_details = JobDetailsOf(job_search_results[1].url)
    /\ selected_job = 2
    /\ job_details = JobDetailsOf(job_search_results[2].url)

====
